---------------------------- MODULE Spec2Model ----------------------------
(***************************************************************************)
(* A model of image-wrench's colour analysis (color/processing.ts):        *)
(* analyzeImageColors and the exported functions it is built from          *)
(* (extractDominantColors, extractColorPalette / medianCutQuantize,        *)
(* extractDistinctColorPalette, calculateColorVariance).                    *)
(*                                                                         *)
(* JavaScript numbers are modelled as exact rationals [n, d]: a finite     *)
(* value has d > 0 and is kept in lowest terms, 0/0 is NaN, 1/0 and -1/0   *)
(* are the infinities.  Rounding error of the doubles is not modelled.     *)
(* Math.random() is a nondeterministic choice.                             *)
(***************************************************************************)
EXTENDS Integers, Sequences, FiniteSets

VARIABLES
    config,   \* the constants of ~/constants/color
    canvas,   \* the canvas under analysis: width, height, ctx, RGBA pixels
    an,       \* analyzeImageColors: its position, locals and result
    km,       \* extractDominantColors / kMeansClustering
    mc,       \* extractColorPalette / medianCutQuantize
    ds,       \* extractDistinctColorPalette
    cmp,      \* color/sorting.ts: the function called, its arguments, its result
    vr,       \* calculateColorVariance, block by block
    rz,       \* image/data: calculateDimensions, resizeImageBlob
    md        \* image/metadata.ts: extractMetadata

vars == <<config, canvas, an, km, mc, ds, cmp, vr, rz, md>>
\* the variables of the functions outside the colour analysis
others == <<vr, rz, md>>

---------------------------------------------------------------------------
(* Bounds of the model *)

\* the largest number of pixels of a canvas
MaxPixels == 3
\* the largest requested number of colours (k, paletteSize, distinctCount)
MaxCount == 2

---------------------------------------------------------------------------
(* Numbers *)

Abs(x) == IF x < 0 THEN -x ELSE x

RECURSIVE GCD(_, _)
GCD(a, b) == IF b = 0 THEN a ELSE GCD(b, a % b)

\* the number n/d, d >= 0: a finite value in lowest terms, or NaN, +-Infinity
Rat(n, d) ==
    IF d = 0
    THEN [n |-> IF n > 0 THEN 1 ELSE IF n < 0 THEN -1 ELSE 0, d |-> 0]
    ELSE LET g == GCD(Abs(n), d) IN [n |-> n \div g, d |-> d \div g]

Num(i) == [n |-> i, d |-> 1]
NaN == [n |-> 0, d |-> 0]
Infinity == [n |-> 1, d |-> 0]
NegInfinity == [n |-> -1, d |-> 0]
IsNaN(x) == x.n = 0 /\ x.d = 0
IsFinite(x) == x.d > 0

LCM(a, b) == (a \div GCD(a, b)) * b

\* x + y, x - y, x * y, x / y of JavaScript on finite operands; 0/0 is NaN
Add(x, y) ==
    LET l == LCM(x.d, y.d)
    IN Rat(x.n * (l \div x.d) + y.n * (l \div y.d), l)
Sub(x, y) == Add(x, [n |-> -y.n, d |-> y.d])
Mul(x, y) ==
    LET g1 == GCD(Abs(x.n), y.d)
        g2 == GCD(Abs(y.n), x.d)
    IN Rat((x.n \div g1) * (y.n \div g2), (x.d \div g2) * (y.d \div g1))
Div(x, y) ==
    IF y.n = 0 THEN Rat(x.n, 0)
    ELSE IF y.n > 0 THEN Mul(x, [n |-> y.d, d |-> y.n])
    ELSE Mul([n |-> -x.n, d |-> x.d], [n |-> y.d, d |-> -y.n])

\* x < y, x <= y of JavaScript: false when either side is NaN
Less(x, y) == ~IsNaN(x) /\ ~IsNaN(y) /\ x.n * y.d < y.n * x.d
LessEq(x, y) == ~IsNaN(x) /\ ~IsNaN(y) /\ x.n * y.d <= y.n * x.d

MathFloor(x) ==
    IF x.d = 0 THEN x ELSE Num(x.n \div x.d)
\* Math.round: the nearest integer, halves up; NaN and the infinities stay
MathRound(x) ==
    IF x.d = 0 THEN x ELSE Num((2 * x.n + x.d) \div (2 * x.d))

\* a number that is an integer, as that integer
IntOf(x) == CASE x.d = 1 -> x.n

\* Math.min(a, b), Math.max(a, b): NaN if either is NaN
MathMin(x, y) == IF IsNaN(x) \/ IsNaN(y) THEN NaN ELSE IF Less(y, x) THEN y ELSE x
MathMax(x, y) == IF IsNaN(x) \/ IsNaN(y) THEN NaN ELSE IF Less(x, y) THEN y ELSE x

---------------------------------------------------------------------------
(* Sequences *)

\* the sum of a sequence of integers, and of numbers: by halves, the sum
\* being exact in whatever order it is taken
RECURSIVE SumSeq(_)
SumSeq(s) ==
    IF Len(s) = 0 THEN 0
    ELSE IF Len(s) = 1 THEN s[1]
    ELSE SumSeq(SubSeq(s, 1, Len(s) \div 2))
           + SumSeq(SubSeq(s, Len(s) \div 2 + 1, Len(s)))

RECURSIVE SumRat(_)
SumRat(s) ==
    IF Len(s) = 0 THEN Num(0)
    ELSE IF Len(s) = 1 THEN s[1]
    ELSE Add(SumRat(SubSeq(s, 1, Len(s) \div 2)),
             SumRat(SubSeq(s, Len(s) \div 2 + 1, Len(s))))

Range(s) == {s[j] : j \in 1..Len(s)}

\* all sequences over S of length at most n
SeqsUpTo(S, n) == UNION {[1..m -> S] : m \in 0..n}

Max2(a, b) == IF a > b THEN a ELSE b
Min2(a, b) == IF a < b THEN a ELSE b
\* Math.min(...S), Math.max(...S) of a non-empty set of integers
SetMin(S) == CHOOSE m \in S : \A x \in S : m <= x
SetMax(S) == CHOOSE m \in S : \A x \in S : m >= x

---------------------------------------------------------------------------
(* The canvas *)

\* the <<r, g, b>> colours the pixels of a canvas are drawn from
PixelColors == {<<255, 0, 0>>, <<0, 255, 0>>, <<0, 0, 255>>, <<8, 7, 10>>}

\* the RGBA bytes of a sequence of colours (ImageData.data), alpha opaque
ImageBytes(cs) ==
    [q \in 1..(4 * Len(cs)) |->
        IF q % 4 = 0 THEN 255 ELSE cs[(q - 1) \div 4 + 1][q % 4]]

\* the canvases of at most MaxPixels pixels; ctx: whether getContext('2d')
\* yields a context; pixels: what ctx.getImageData(0, 0, width, height) holds
CanvasesOf(colors) ==
    {[width |-> w, height |-> h, ctx |-> c, pixels |-> ImageBytes(cs)] :
        <<w, h, c, cs>> \in
            {x \in (0..MaxPixels) \X (0..MaxPixels) \X BOOLEAN
                     \X SeqsUpTo(colors, MaxPixels) :
                x[1] * x[2] = Len(x[4])}}
Canvases == CanvasesOf(PixelColors)
\* if (!ctx) throw new Error('Failed to get canvas context')
ContextAssumed(cv) == FALSE
ContextMissing(cv) == ~cv.ctx
\* the colours of the canvases the whole analysis is run on
AnalyzedColors == {<<255, 0, 0>>, <<0, 255, 0>>, <<8, 7, 10>>}

---------------------------------------------------------------------------
(* analyzeImageColors: histogram, totals, brightness *)

HISTOGRAM_BINS == 32
CANDIDATE_SIZE_FACTOR == 12

\* initializeHistogram: HISTOGRAM_BINS bins per channel; JavaScript index i is
\* position i + 1
createBins ==
    [j \in 1..HISTOGRAM_BINS |->
        [count |-> 0, value |-> ((j - 1) * 256) \div HISTOGRAM_BINS]]
initializeHistogram ==
    [r |-> createBins, g |-> createBins, b |-> createBins, totalPixels |-> 0]

getBinIndexOver255(value) == (value * HISTOGRAM_BINS) \div 255
getBinIndex(value) == (value * HISTOGRAM_BINS) \div 256

\* histogram.r[index] is undefined outside 0..HISTOGRAM_BINS-1
BinDefined(index) == index >= 0 /\ index < HISTOGRAM_BINS

IncrementBin(bins, index) ==
    [bins EXCEPT ![index + 1].count = @ + 1]

\* updateHistogram: all three bins are incremented, or none is
updateHistogram(histogram, r, g, b) ==
    IF BinDefined(getBinIndex(r)) /\ BinDefined(getBinIndex(g))
        /\ BinDefined(getBinIndex(b))
    THEN [histogram EXCEPT !.r = IncrementBin(@, getBinIndex(r)),
                           !.g = IncrementBin(@, getBinIndex(g)),
                           !.b = IncrementBin(@, getBinIndex(b))]
    ELSE histogram

\* Brightness is counted in units of 1 / BrightnessUnit.
\* The linearised channel v/255 in units of 1/16473: (v/255)/12.92 = 5v/16473
\* when v/255 <= 0.03928, that is v <= 10; the power law is evaluated only
\* where it is rational, at v = 255, where it is 1.
LinearChannel(v) ==
    CASE v <= 10 -> 5 * v
      [] v = 255 -> 16473
BrightnessUnit == 10000 * 16473
calculatePixelBrightness(r, g, b) ==
    2126 * LinearChannel(r) + 7152 * LinearChannel(g) + 722 * LinearChannel(b)

\* colorCounts: a Map, as its entries in insertion order.  The key
\* `${r},${g},${b}` is kept as its comma-separated parts.
ColorKey(r, g, b) == <<r, g, b>>
MapHas(map, key) == \E j \in 1..Len(map) : map[j].key = key
MapIndex(map, key) == CHOOSE j \in 1..Len(map) : map[j].key = key
\* map.set(key, (map.get(key) || 0) + 1)
MapIncrement(map, key) ==
    IF MapHas(map, key)
    THEN [map EXCEPT ![MapIndex(map, key)].count = @ + 1]
    ELSE Append(map, [key |-> key, count |-> 1])

NoColor == [r |-> Num(0), g |-> Num(0), b |-> Num(0)]

\* the locals of analyzeImageColors before the pixel loop
AnalyzeLocals ==
    [pc |-> "getContext", i |-> 0,
     histogram |-> initializeHistogram, colorCounts |-> <<>>,
     totalR |-> 0, totalG |-> 0, totalB |-> 0,
     minBrightness |-> BrightnessUnit, maxBrightness |-> 0,
     totalBrightness |-> 0,
     averageColor |-> NoColor, dominantColors |-> <<>>,
     representativePaletteColors |-> <<>>, distinctPaletteColors |-> <<>>,
     brightness |-> [averageBrightness |-> Num(0),
                     brightnessRange |-> [min |-> 0, max |-> 0]],
     colorVariance |-> NoColor]

---------------------------------------------------------------------------
(* extractDominantColors: weighted k-means *)

\* a stable sort, as Array.prototype.sort: After(x, y) is compare(x, y) > 0.
\* An element is placed behind those that compare before it and behind the
\* earlier ones that compare equal to it.
StableSort(s, After(_, _)) ==
    LET Before(j, i) ==
            \/ After(s[i], s[j])
            \/ ~After(s[j], s[i]) /\ j < i
        Rank(i) == Cardinality({j \in 1..Len(s) : j # i /\ Before(j, i)}) + 1
    IN [p \in 1..Len(s) |-> s[CHOOSE i \in 1..Len(s) : Rank(i) = p]]

\* a DataPoint as a Centroid
AsCentroid(d) == [r |-> Num(d.r), g |-> Num(d.g), b |-> Num(d.b)]

euclideanDistanceSquared(c1, c2) ==
    LET dr == Sub(c1.r, c2.r)
        dg == Sub(c1.g, c2.g)
        db == Sub(c1.b, c2.b)
    IN Add(Add(Mul(dr, dr), Mul(dg, dg)), Mul(db, db))

\* Math.random() * total is drawn as rand2 / 2.  The loops below depend only on
\* the first index whose running total reaches the draw: one draw is taken
\* inside each step of the running total, and the draw 0 (Math.random() = 0).
RECURSIVE RunningTotal(_, _)
RunningTotal(weights, i) ==
    IF i = 0 THEN 0 ELSE RunningTotal(weights, i - 1) + weights[i]
RandomDraws(weights) ==
    {0} \cup {2 * RunningTotal(weights, i) - 1 :
                i \in {j \in 1..Len(weights) : weights[j] > 0}}

\* for (...) { rand -= weights[i]; if (rand <= 0) { selected = data[i]; break } }
\* the index selected, or 0 when the loop selects none
RECURSIVE SelectByWeight(_, _, _)
SelectByWeight(weights, rand2, i) ==
    IF i > Len(weights) THEN 0
    ELSE IF rand2 - 2 * weights[i] <= 0 THEN i
    ELSE SelectByWeight(weights, rand2 - 2 * weights[i], i + 1)

\* if (!selected) selected = data[data.length - 1]
SelectedOrLast(weights, rand2) ==
    LET i == SelectByWeight(weights, rand2, 1)
    IN IF i = 0 THEN Len(weights) ELSE i

\* the least of a non-empty sequence of numbers (Math.min(...xs))
RECURSIVE MinOf(_)
MinOf(xs) ==
    IF Len(xs) = 1 THEN xs[1] ELSE MathMin(xs[1], MinOf(Tail(xs)))

\* initializeCentroidsKMeansPP: the weights of the next draw, the squared
\* distance to the nearest chosen centroid times the count
SeedDistances(data, centroids) ==
    [j \in 1..Len(data) |->
        MinOf([c \in 1..Len(centroids) |->
                 euclideanDistanceSquared(AsCentroid(data[j]), centroids[c])]).n
            * data[j].count]

\* kMeansClustering: the nearest centroid of d, the first of the nearest
RECURSIVE NearestFrom(_, _, _, _, _)
NearestFrom(d, centroids, i, bestIndex, bestDistance) ==
    IF i > Len(centroids) THEN bestIndex
    ELSE LET d2 == euclideanDistanceSquared(AsCentroid(d), centroids[i])
         IN IF Less(d2, bestDistance)
            THEN NearestFrom(d, centroids, i + 1, i, d2)
            ELSE NearestFrom(d, centroids, i + 1, bestIndex, bestDistance)
RECURSIVE NearestLastFrom(_, _, _, _, _)
NearestLastFrom(d, centroids, i, bestIndex, bestDistance) ==
    IF i > Len(centroids) THEN bestIndex
    ELSE LET d2 == euclideanDistanceSquared(AsCentroid(d), centroids[i])
         IN IF LessEq(d2, bestDistance)
            THEN NearestLastFrom(d, centroids, i + 1, i, d2)
            ELSE NearestLastFrom(d, centroids, i + 1, bestIndex, bestDistance)
NearestLast(d, centroids) == NearestLastFrom(d, centroids, 1, 1, Infinity)
Nearest(d, centroids) == NearestFrom(d, centroids, 1, 1, Infinity)

\* the sums of one pass: per centroid, over the points assigned to it
SumOver(data, assigned, i, F(_)) ==
    SumSeq([j \in 1..Len(data) |-> IF assigned[j] = i THEN F(data[j]) ELSE 0])
ClusterSumsUnweighted(data, assigned, k) ==
    [i \in 1..k |->
        [sumR |-> SumOver(data, assigned, i, LAMBDA d : d.r),
         sumG |-> SumOver(data, assigned, i, LAMBDA d : d.g),
         sumB |-> SumOver(data, assigned, i, LAMBDA d : d.b),
         weight |-> SumOver(data, assigned, i, LAMBDA d : 1)]]
ClusterSums(data, assigned, k) ==
    [i \in 1..k |->
        [sumR |-> SumOver(data, assigned, i, LAMBDA d : d.r * d.count),
         sumG |-> SumOver(data, assigned, i, LAMBDA d : d.g * d.count),
         sumB |-> SumOver(data, assigned, i, LAMBDA d : d.b * d.count),
         weight |-> SumOver(data, assigned, i, LAMBDA d : d.count)]]

NewCentroid(sum) ==
    [r |-> Div(Num(sum.sumR), Num(sum.weight)),
     g |-> Div(Num(sum.sumG), Num(sum.weight)),
     b |-> Div(Num(sum.sumB), Num(sum.weight))]

MovedByOneOrMore(old, new) ==
    LessEq(Num(1), euclideanDistanceSquared(old, new))
\* if (euclideanDistanceSquared(centroids[i], newCentroid) > 1.0) converged = false
MovedSignificantly(old, new) == Less(Num(1), euclideanDistanceSquared(old, new))

\* the iteration cap extractDominantColors passes to kMeansClustering
MaxIterations == 10

\* Math.min(255, Math.max(0, Math.round(x))), an integer
ClampChannel(x) == IntOf(MathMin(Num(255), MathMax(Num(0), MathRound(x))))
CentroidColor(c) ==
    [r |-> ClampChannel(c.r), g |-> ClampChannel(c.g), b |-> ClampChannel(c.b)]

\* a key's parts are integers here: parts.some(isNaN) is false
ValidKey(key) == Len(key) = 3
\* the entries of the colour map as DataPoints, invalid keys dropped
RECURSIVE MapToData(_)
MapToData(map) ==
    IF map = <<>> THEN <<>>
    ELSE (IF ValidKey(Head(map).key)
          THEN <<[r |-> Head(map).key[1], g |-> Head(map).key[2],
                  b |-> Head(map).key[3], count |-> Head(map).count]>>
          ELSE <<>>) \o MapToData(Tail(map))

PointColor(d) == [r |-> d.r, g |-> d.g, b |-> d.b]

KmIdle == [pc |-> "idle"]
\* extractDominantColors(colorCounts, k) is entered
KmEntered(colorCounts, k, caller) ==
    [pc |-> "start", caller |-> caller, colorCounts |-> colorCounts, k |-> k,
     data |-> <<>>, centroids |-> <<>>, clusterWeights |-> <<>>,
     iteration |-> 0, converged |-> FALSE, assigned |-> <<>>,
     clustered |-> FALSE, passes |-> <<>>,
     clusters |-> <<>>, result |-> <<>>]

\* the map becomes data; few colours are returned as they are
DominantStart ==
    /\ km.pc = "start"
    /\ LET data == MapToData(km.colorCounts)
       IN km' = IF Len(data) = 0
                THEN [km EXCEPT !.data = data, !.result = <<>>, !.pc = "done"]
                ELSE IF Len(data) <= km.k
                THEN [km EXCEPT !.data = data, !.pc = "done",
                        !.result = [j \in 1..Len(data) |-> PointColor(data[j])]]
                ELSE [km EXCEPT !.data = data, !.clustered = TRUE,
                                !.pc = "seedFirst"]
    /\ UNCHANGED <<others, cmp, config, canvas, an, mc, ds>>

\* initializeCentroidsKMeansPP: the first centroid, drawn by count
SeedFirst ==
    /\ km.pc = "seedFirst"
    /\ LET weights == [j \in 1..Len(km.data) |-> km.data[j].count]
       IN \E rand2 \in RandomDraws(weights) :
            km' = [km EXCEPT
                     !.centroids =
                        <<AsCentroid(km.data[SelectedOrLast(weights, rand2)])>>,
                     !.pc = "seedNext"]
    /\ UNCHANGED <<others, cmp, config, canvas, an, mc, ds>>

\* initializeCentroidsKMeansPP: while (centroids.length < k), one more centroid
SeedNext ==
    /\ km.pc = "seedNext"
    /\ Len(km.centroids) < km.k
    /\ LET distances == SeedDistances(km.data, km.centroids)
       IN \E rand2 \in RandomDraws(distances) :
            km' = [km EXCEPT
                     !.centroids =
                        Append(@, AsCentroid(
                            km.data[SelectedOrLast(distances, rand2)]))]
    /\ UNCHANGED <<others, cmp, config, canvas, an, mc, ds>>

\* kMeansClustering is entered: k is the number of centroids
KMeansEnter ==
    /\ km.pc = "seedNext"
    /\ ~(Len(km.centroids) < km.k)
    /\ km' = [km EXCEPT
                !.clusterWeights = [i \in 1..Len(km.centroids) |-> 0],
                !.iteration = 0, !.pc = "iterate"]
    /\ UNCHANGED <<others, cmp, config, canvas, an, mc, ds>>

\* one pass of the loop of kMeansClustering: assign, update, reseed the empty
\* clusters at random; the loop ends when converged or at the iteration cap
\* converged after a pass: no centroid moved significantly, none was reseeded
ConvergedThoughEmpty(sums, old, new) ==
    \A i \in 1..Len(sums) :
        sums[i].weight > 0 => ~MovedSignificantly(old[i], new[i])
Converged(sums, old, new) ==
    \A i \in 1..Len(sums) :
        /\ sums[i].weight > 0
        /\ ~MovedSignificantly(old[i], new[i])

\* passes records each pass: the clusters left empty, how far each centroid
\* moved (squared), the centroids after it, whether it converged
KMeansPass ==
    /\ km.pc = "iterate"
    /\ km.iteration < MaxIterations
    /\ \E assigned \in {[j \in 1..Len(km.data) |->
                            Nearest(km.data[j], km.centroids)]} :
       \E sums \in {ClusterSums(km.data, assigned, Len(km.centroids))} :
       \E random \in [{i \in 1..Len(sums) : sums[i].weight = 0}
                        -> 1..Len(km.data)] :
       \E centroids \in {[i \in 1..Len(sums) |->
                            IF sums[i].weight > 0 THEN NewCentroid(sums[i])
                            ELSE AsCentroid(km.data[random[i]])]} :
       \E converged \in {Converged(sums, km.centroids, centroids)} :
            km' = [km EXCEPT
                     !.assigned = assigned,
                     !.centroids = centroids,
                     !.clusterWeights = [i \in 1..Len(sums) |-> sums[i].weight],
                     !.converged = converged,
                     !.passes = Append(@,
                         [empty |-> {i \in 1..Len(sums) : sums[i].weight = 0},
                          moved |-> [i \in 1..Len(sums) |->
                                        euclideanDistanceSquared(km.centroids[i],
                                                                 centroids[i])],
                          centroids |-> centroids,
                          converged |-> converged]),
                     !.iteration = IF converged THEN @ ELSE @ + 1,
                     !.pc = IF converged \/ ~(km.iteration + 1 < MaxIterations)
                            THEN "output" ELSE "iterate"]
    /\ UNCHANGED <<others, cmp, config, canvas, an, mc, ds>>

\* clusters sorted by weight, descending; centroids rounded and clamped
LighterAfter(a, b) == a.weight - b.weight > 0
HeavierAfter(a, b) == b.weight - a.weight > 0
DominantOutput ==
    /\ km.pc = "output"
    /\ LET clusters ==
               StableSort([i \in 1..Len(km.centroids) |->
                           [centroid |-> km.centroids[i],
                            weight |-> km.clusterWeights[i]]], HeavierAfter)
       IN km' = [km EXCEPT
                   !.clusters = clusters,
                   !.result = [i \in 1..Len(clusters) |->
                                  CentroidColor(clusters[i].centroid)],
                   !.pc = "done"]
    /\ UNCHANGED <<others, cmp, config, canvas, an, mc, ds>>

---------------------------------------------------------------------------
(* extractColorPalette: median cut *)

\* the least and the greatest of a channel over a non-empty list of points
RECURSIVE ChannelMin(_, _)
ChannelMin(data, ch) ==
    IF Len(data) = 1 THEN data[1][ch]
    ELSE Min2(data[1][ch], ChannelMin(Tail(data), ch))
RECURSIVE ChannelMax(_, _)
ChannelMax(data, ch) ==
    IF Len(data) = 1 THEN data[1][ch]
    ELSE Max2(data[1][ch], ChannelMax(Tail(data), ch))

\* createColorBox, of a non-empty list of points
createColorBox(data) ==
    [data |-> data,
     rMin |-> ChannelMin(data, "r"), rMax |-> ChannelMax(data, "r"),
     gMin |-> ChannelMin(data, "g"), gMax |-> ChannelMax(data, "g"),
     bMin |-> ChannelMin(data, "b"), bMax |-> ChannelMax(data, "b")]

FirstChannel(box) == "r"
\* splitBox: the channel the box is cut along
LongestChannel(box) ==
    LET rRange == box.rMax - box.rMin
        gRange == box.gMax - box.gMin
        bRange == box.bMax - box.bMin
    IN IF gRange >= rRange /\ gRange >= bRange THEN "g"
       ELSE IF bRange >= rRange /\ bRange >= gRange THEN "b"
       ELSE "r"

\* splitBox: the first JavaScript index i at which the cumulative count
\* reaches half the total count; 0 when none does
RECURSIVE MedianFrom(_, _, _, _)
MedianFrom(sortedData, i, cumulative, half) ==
    IF ~(i < Len(sortedData)) THEN 0
    ELSE LET c == Add(cumulative, sortedData[i + 1].count)
         IN IF LessEq(half, c) THEN i
            ELSE MedianFrom(sortedData, i + 1, c, half)
MedianIndex(sortedData) ==
    LET totalCount == SumRat([j \in 1..Len(sortedData) |-> sortedData[j].count])
        medianIndex == MedianFrom(sortedData, 0, Num(0), Div(totalCount, Num(2)))
    IN IF medianIndex = 0 THEN 1 ELSE medianIndex

SortedOnChannel(data, channel) ==
    StableSort(data, LAMBDA a, b : a[channel] - b[channel] > 0)

DataSortedInPlace(data, sortedData) == sortedData
\* box.data.slice().sort(...): the array box.data after the statement; the
\* copy is sorted, box.data is as it was
DataAfterSort(data, sortedData) == data

\* splitBox: the two boxes, left and right of the weighted median
splitBox(box) ==
    LET sortedData == SortedOnChannel(box.data, LongestChannel(box))
        medianIndex == MedianIndex(sortedData)
    IN <<createColorBox(SubSeq(sortedData, 1, medianIndex)),
         createColorBox(SubSeq(sortedData, medianIndex + 1, Len(sortedData)))>>

computeAverageColorPerPoint(data) ==
    LET sumR == SumRat([j \in 1..Len(data) |-> Mul(Num(data[j].r), data[j].count)])
        sumG == SumRat([j \in 1..Len(data) |-> Mul(Num(data[j].g), data[j].count)])
        sumB == SumRat([j \in 1..Len(data) |-> Mul(Num(data[j].b), data[j].count)])
    IN [r |-> IntOf(MathRound(Div(sumR, Num(Len(data))))),
        g |-> IntOf(MathRound(Div(sumG, Num(Len(data))))),
        b |-> IntOf(MathRound(Div(sumB, Num(Len(data)))))]
\* computeAverageColor: the weighted mean of the points, rounded
computeAverageColor(data) ==
    LET sumR == SumRat([j \in 1..Len(data) |-> Mul(Num(data[j].r), data[j].count)])
        sumG == SumRat([j \in 1..Len(data) |-> Mul(Num(data[j].g), data[j].count)])
        sumB == SumRat([j \in 1..Len(data) |-> Mul(Num(data[j].b), data[j].count)])
        total == SumRat([j \in 1..Len(data) |-> data[j].count])
    IN [r |-> IntOf(MathRound(Div(sumR, total))),
        g |-> IntOf(MathRound(Div(sumG, total))),
        b |-> IntOf(MathRound(Div(sumB, total)))]

BoxRange(box) ==
    Max2(Max2(box.rMax - box.rMin, box.gMax - box.gMin), box.bMax - box.bMin)

BoxToSplitFirst(boxes) == 1
\* medianCutQuantize: the position of the box to split, the first of the
\* boxes of the largest range (boxToSplitIndex + 1; boxes is never empty)
RECURSIVE BoxToSplitFrom(_, _, _, _)
BoxToSplitFrom(boxes, i, best, maxRange) ==
    IF i > Len(boxes) THEN best
    ELSE IF best = 0 \/ BoxRange(boxes[i]) > maxRange
         THEN BoxToSplitFrom(boxes, i + 1, i, BoxRange(boxes[i]))
         ELSE BoxToSplitFrom(boxes, i + 1, best, maxRange)
BoxToSplit(boxes) == BoxToSplitFrom(boxes, 1, 0, 0)

\* boxes.splice(boxToSplitIndex, 1, box1, box2)
Splice(boxes, at, pair) ==
    SubSeq(boxes, 1, at - 1) \o pair \o SubSeq(boxes, at + 1, Len(boxes))

\* getSaturation
getSaturation(color) ==
    LET max == Max2(Max2(color.r, color.g), color.b)
        min == Min2(Min2(color.r, color.g), color.b)
    IN IF max = 0 THEN Num(0) ELSE Div(Num(max - min), Num(max))

saturationFactor == 1

\* extractColorPalette: the map of the pixels
RECURSIVE PixelColorCounts(_, _)
PixelColorCounts(pixels, n) ==
    IF n = 0 THEN <<>>
    ELSE MapIncrement(PixelColorCounts(pixels, n - 1),
                      ColorKey(pixels[4 * n - 3], pixels[4 * n - 2], pixels[4 * n - 1]))

\* extractColorPalette: the entries as DataPoints, the count boosted by the
\* saturation
RECURSIVE BoostedData(_)
BoostedData(map) ==
    IF map = <<>> THEN <<>>
    ELSE LET key == Head(map).key
             color == [r |-> key[1], g |-> key[2], b |-> key[3]]
             effectiveCount ==
                 Mul(Num(Head(map).count),
                     Add(Num(1), Mul(Num(saturationFactor), getSaturation(color))))
         IN (IF Len(key) >= 3
             THEN <<[r |-> key[1], g |-> key[2], b |-> key[3],
                     count |-> effectiveCount]>>
             ELSE <<>>) \o BoostedData(Tail(map))

McIdle == [pc |-> "idle"]
\* extractColorPalette(canvas, paletteSize) is entered
PaletteEntered(paletteSize, caller) ==
    [pc |-> "start", caller |-> caller, paletteSize |-> paletteSize,
     data |-> <<>>, boxes |-> <<>>, splits |-> <<>>, halves |-> <<>>,
     result |-> <<>>]
\* medianCutQuantize(data, paletteSize) is entered
QuantizeEntered(data, paletteSize, caller) ==
    [PaletteEntered(paletteSize, caller) EXCEPT !.pc = "quantize", !.data = data]

\* extractColorPalette up to its call of medianCutQuantize
PaletteStart ==
    /\ mc.pc = "start"
    /\ \E data \in {IF ContextMissing(canvas)
                    THEN <<>>
                    ELSE BoostedData(PixelColorCounts(canvas.pixels,
                                                      Len(canvas.pixels) \div 4))} :
         mc' = IF ContextMissing(canvas) THEN [mc EXCEPT !.pc = "threw"]
               ELSE IF Len(data) = 0
               THEN [mc EXCEPT !.data = data, !.result = <<>>, !.pc = "done"]
               ELSE [mc EXCEPT !.data = data, !.pc = "quantize"]
    /\ UNCHANGED <<others, cmp, config, canvas, an, km, ds>>

\* medianCutQuantize: no data, or the first box
QuantizeStart ==
    /\ mc.pc = "quantize"
    /\ mc' = IF Len(mc.data) = 0
             THEN [mc EXCEPT !.result = <<>>, !.pc = "done"]
             ELSE [mc EXCEPT !.boxes = <<createColorBox(mc.data)>>, !.pc = "split"]
    /\ UNCHANGED <<others, cmp, config, canvas, an, km, ds>>

\* one turn of the loop of medianCutQuantize that splits a box; splits
\* records the boxes given to splitBox, halves the two boxes it made of each.
\* The first box holds the caller's array itself (createColorBox(data)).
QuantizeSplit ==
    /\ mc.pc = "split"
    /\ Len(mc.boxes) < mc.paletteSize
    /\ \E at \in {BoxToSplit(mc.boxes)} :
         /\ ~(Len(mc.boxes[at].data) <= 1)
         /\ \E pair \in {splitBox(mc.boxes[at])} :
              mc' = [mc EXCEPT
                       !.data = IF Len(mc.splits) = 0
                                THEN DataAfterSort(@, SortedOnChannel(@,
                                         LongestChannel(mc.boxes[at])))
                                ELSE @,
                       !.boxes = Splice(@, at, pair),
                       !.splits = Append(@, mc.boxes[at]),
                       !.halves = Append(@, pair)]
    /\ UNCHANGED <<others, cmp, config, canvas, an, km, ds>>

\* the loop ends, by its condition or by a break; the colours of the boxes
QuantizeReturn ==
    /\ mc.pc = "split"
    /\ \/ ~(Len(mc.boxes) < mc.paletteSize)
       \/ Len(mc.boxes[BoxToSplit(mc.boxes)].data) <= 1
    /\ mc' = [mc EXCEPT
                !.result = [j \in 1..Len(mc.boxes) |->
                               computeAverageColor(mc.boxes[j].data)],
                !.pc = "done"]
    /\ UNCHANGED <<others, cmp, config, canvas, an, km, ds>>

---------------------------------------------------------------------------
(* extractDistinctColorPalette: greedy selection of distinct colours *)

\* colorDistance squared: Math.sqrt is increasing and keeps distinct integers
\* below 2^53 apart, so distances compare as their squares do
colorDistanceSquared(c1, c2) ==
    LET dr == c1.r - c2.r
        dg == c1.g - c2.g
        db == c1.b - c2.b
    IN dr * dr + dg * dg + db * db

\* the least distance of a candidate to the selected colours (never empty)
RECURSIVE MinDistance(_, _)
MinDistance(candidate, selected) ==
    IF Len(selected) = 1 THEN colorDistanceSquared(candidate, selected[1])
    ELSE Min2(colorDistanceSquared(candidate, selected[1]),
              MinDistance(candidate, Tail(selected)))

\* the inner loop: the position of the first candidate of the largest least
\* distance (candidateIndex + 1); 0 stands for candidateIndex = -1
RECURSIVE MostDistinctFrom(_, _, _, _, _)
MostDistinctFrom(sortedCandidates, selected, i, candidateIndex, maxMinDistance) ==
    IF i > Len(sortedCandidates) THEN candidateIndex
    ELSE LET minDistance == MinDistance(sortedCandidates[i], selected)
         IN IF candidateIndex = 0 \/ minDistance > maxMinDistance
            THEN MostDistinctFrom(sortedCandidates, selected, i + 1, i, minDistance)
            ELSE MostDistinctFrom(sortedCandidates, selected, i + 1,
                                  candidateIndex, maxMinDistance)
RECURSIVE MostDistinctLastFrom(_, _, _, _, _)
MostDistinctLastFrom(sortedCandidates, selected, i, candidateIndex, maxMinDistance) ==
    IF i > Len(sortedCandidates) THEN candidateIndex
    ELSE LET minDistance == MinDistance(sortedCandidates[i], selected)
         IN IF candidateIndex = 0 \/ minDistance >= maxMinDistance
            THEN MostDistinctLastFrom(sortedCandidates, selected, i + 1, i,
                                      minDistance)
            ELSE MostDistinctLastFrom(sortedCandidates, selected, i + 1,
                                      candidateIndex, maxMinDistance)
MostDistinctLast(sortedCandidates, selected) ==
    MostDistinctLastFrom(sortedCandidates, selected, 1, 0, 0)
MostDistinct(sortedCandidates, selected) ==
    MostDistinctFrom(sortedCandidates, selected, 1, 0, 0)

\* while (selected.length < distinctCount && sortedCandidates.length > 0)
KeepSelectingOneMore(selected, distinctCount, sortedCandidates) ==
    Len(selected) <= distinctCount /\ Len(sortedCandidates) > 0
KeepSelecting(selected, distinctCount, sortedCandidates) ==
    Len(selected) < distinctCount /\ Len(sortedCandidates) > 0

\* sort((a, b) => getSaturation(b) - getSaturation(a))
MoreSaturatedFirst(a, b) == Less(getSaturation(a), getSaturation(b))
SortedBySaturation(palette) == StableSort(palette, MoreSaturatedFirst)

RemoveAt(s, i) == SubSeq(s, 1, i - 1) \o SubSeq(s, i + 1, Len(s))

DsIdle == [pc |-> "idle"]
\* extractDistinctColorPalette(canvas, distinctCount, candidateSizeFactor)
DistinctEntered(distinctCount, candidateSizeFactor, caller) ==
    [pc |-> "start", caller |-> caller, distinctCount |-> distinctCount,
     candidateSizeFactor |-> candidateSizeFactor,
     candidatePalette |-> <<>>, sortedCandidates |-> <<>>, selected |-> <<>>,
     picks |-> <<>>, sorted |-> FALSE, result |-> <<>>]

\* the call of extractColorPalette(canvas, candidateCount)
DistinctCallPalette ==
    /\ ds.pc = "start"
    /\ mc' = PaletteEntered(ds.distinctCount * ds.candidateSizeFactor, "distinct")
    /\ ds' = [ds EXCEPT !.pc = "candidates"]
    /\ UNCHANGED <<others, cmp, config, canvas, an, km>>

\* extractColorPalette threw: so does extractDistinctColorPalette
DistinctThrow ==
    /\ ds.pc = "candidates"
    /\ mc.pc = "threw" /\ mc.caller = "distinct"
    /\ ds' = [ds EXCEPT !.pc = "threw"]
    /\ UNCHANGED <<others, cmp, config, canvas, an, km, mc>>

\* the candidate palette is back (the call's locals are gone): returned as it
\* is, or sorted by saturation and the most saturated candidate selected
DistinctCandidates ==
    /\ ds.pc = "candidates"
    /\ mc.pc = "done" /\ mc.caller = "distinct"
    /\ \E candidatePalette \in {mc.result} :
       \E sortedCandidates \in {SortedBySaturation(candidatePalette)} :
         ds' = IF Len(candidatePalette) <= ds.distinctCount
               THEN [ds EXCEPT !.candidatePalette = candidatePalette,
                               !.result = candidatePalette, !.pc = "done"]
               ELSE [ds EXCEPT !.candidatePalette = candidatePalette,
                               !.sorted = TRUE,
                               !.selected = <<Head(sortedCandidates)>>,
                               !.sortedCandidates = Tail(sortedCandidates),
                               !.pc = "select"]
    /\ mc' = McIdle
    /\ UNCHANGED <<others, cmp, config, canvas, an, km>>

\* one turn of the greedy loop; picks records what each turn chose from
DistinctSelect ==
    /\ ds.pc = "select"
    /\ KeepSelecting(ds.selected, ds.distinctCount, ds.sortedCandidates)
    /\ \E at \in {MostDistinct(ds.sortedCandidates, ds.selected)} :
         /\ at # 0
         /\ ds' = [ds EXCEPT
                     !.selected = Append(@, ds.sortedCandidates[at]),
                     !.sortedCandidates = RemoveAt(@, at),
                     !.picks = Append(@, [selected |-> ds.selected,
                                          sortedCandidates |-> ds.sortedCandidates,
                                          at |-> at])]
    /\ UNCHANGED <<others, cmp, config, canvas, an, km, mc>>

\* the loop ends: the selected colours are returned
DistinctReturn ==
    /\ ds.pc = "select"
    /\ \/ ~KeepSelecting(ds.selected, ds.distinctCount, ds.sortedCandidates)
       \/ MostDistinct(ds.sortedCandidates, ds.selected) = 0
    /\ ds' = [ds EXCEPT !.result = ds.selected, !.pc = "done"]
    /\ UNCHANGED <<others, cmp, config, canvas, an, km, mc>>


\* canvas.getContext('2d'), the throw when there is none, getImageData
AnalyzeGetContext ==
    /\ an.pc = "getContext"
    /\ an' = [an EXCEPT !.pc = IF ContextMissing(canvas) THEN "threw" ELSE "scan"]
    /\ UNCHANGED <<others, cmp, config, canvas, km, mc, ds>>

\* one turn of the pixel loop
AnalyzeScanPixel ==
    /\ an.pc = "scan"
    /\ an.i < Len(canvas.pixels)
    /\ LET r == canvas.pixels[an.i + 1]
           g == canvas.pixels[an.i + 2]
           b == canvas.pixels[an.i + 3]
           brightness == calculatePixelBrightness(r, g, b)
       IN an' = [an EXCEPT
                   !.histogram = updateHistogram(@, r, g, b),
                   !.colorCounts = MapIncrement(@, ColorKey(r, g, b)),
                   !.totalR = @ + r, !.totalG = @ + g, !.totalB = @ + b,
                   !.minBrightness = Min2(@, brightness),
                   !.maxBrightness = Max2(@, brightness),
                   !.totalBrightness = @ + brightness,
                   !.i = @ + 4]
    /\ UNCHANGED <<others, cmp, config, canvas, km, mc, ds>>

\* after the loop: totalPixels and the average colour
AnalyzeAverage ==
    /\ an.pc = "scan"
    /\ ~(an.i < Len(canvas.pixels))
    /\ LET totalPixels == Len(canvas.pixels) \div 4
       IN an' = [an EXCEPT
                   !.histogram.totalPixels = totalPixels,
                   !.averageColor =
                       [r |-> MathRound(Div(Num(an.totalR), Num(totalPixels))),
                        g |-> MathRound(Div(Num(an.totalG), Num(totalPixels))),
                        b |-> MathRound(Div(Num(an.totalB), Num(totalPixels)))],
                   !.pc = "dominant"]
    /\ UNCHANGED <<others, cmp, config, canvas, km, mc, ds>>

\* the pixel loop of analyzeImageColors as far as the histogram goes: the call
\* of updateHistogram for the pixel at i
HistogramPixel ==
    /\ an.pc = "histogram"
    /\ an.i < Len(canvas.pixels)
    /\ an' = [an EXCEPT
                !.histogram = updateHistogram(@, canvas.pixels[an.i + 1],
                                              canvas.pixels[an.i + 2],
                                              canvas.pixels[an.i + 3]),
                !.i = @ + 4]
    /\ UNCHANGED <<others, cmp, config, canvas, km, mc, ds>>

---------------------------------------------------------------------------
(* calculateColorVariance *)

BLOCK_SIZE == 16

\* the channel ch (0, 1, 2) of the pixel at x, y
Channel(cv, x, y, ch) == cv.pixels[(y * cv.width + x) * 4 + ch + 1]
NothingSkipped(cv, x, y) == FALSE
\* if (!r || !g || !b) continue
Skipped(cv, x, y) ==
    Channel(cv, x, y, 0) = 0 \/ Channel(cv, x, y, 1) = 0 \/ Channel(cv, x, y, 2) = 0

\* the pixels of a block that are not skipped, row by row
BlockPixelList(cv, blockX, blockY) ==
    LET startX == blockX * BLOCK_SIZE
        startY == blockY * BLOCK_SIZE
        endX == Min2(startX + BLOCK_SIZE, cv.width)
        endY == Min2(startY + BLOCK_SIZE, cv.height)
        InBlock(p) ==
            /\ (p % cv.width) >= startX /\ (p % cv.width) < endX
            /\ (p \div cv.width) >= startY /\ (p \div cv.width) < endY
            /\ ~Skipped(cv, p % cv.width, p \div cv.width)
    IN {p \in 0..(cv.width * cv.height - 1) : InBlock(p)}

\* the variance of channel ch over the pixels ps of a block: the mean in a
\* first pass, the mean squared difference in a second
BlockChannelVariance(cv, ps, ch) ==
    LET n == cv.width * cv.height
        Value(p) == Channel(cv, p % cv.width, p \div cv.width, ch)
        pixelCount == Cardinality(ps)
        total == SumSeq([q \in 1..n |-> IF (q - 1) \in ps THEN Value(q - 1) ELSE 0])
        SecondPass(mean) ==
            SumRat([q \in 1..n |->
                      IF (q - 1) \in ps
                      THEN Mul(Sub(Num(Value(q - 1)), mean), Sub(Num(Value(q - 1)), mean))
                      ELSE Num(0)])
    IN Div(SecondPass(Div(Num(total), Num(pixelCount))), Num(pixelCount))

\* blockVariances: one entry per block that has a pixel left, blockY outermost
RECURSIVE BlockVariancesFrom(_, _, _)
BlockVariancesFrom(cv, blocksX, q) ==
    IF q = 0 THEN <<>>
    ELSE LET ps == BlockPixelList(cv, (q - 1) % blocksX, (q - 1) \div blocksX)
         IN BlockVariancesFrom(cv, blocksX, q - 1)
              \o (IF Cardinality(ps) = 0 THEN <<>>
                  ELSE <<[r |-> BlockChannelVariance(cv, ps, 0),
                          g |-> BlockChannelVariance(cv, ps, 1),
                          b |-> BlockChannelVariance(cv, ps, 2)]>>)
BlockVariances(cv) ==
    LET blocksX == (cv.width + BLOCK_SIZE - 1) \div BLOCK_SIZE
        blocksY == (cv.height + BLOCK_SIZE - 1) \div BLOCK_SIZE
    IN BlockVariancesFrom(cv, blocksX, blocksX * blocksY)

PercentileNearestRank(values) ==
    LET sorted == StableSort(values, LAMBDA a, b : Less(b, a))
        percentileIndex == (Len(values) * 3 + 3) \div 4 - 1
    IN IF Len(values) > 0 THEN sorted[percentileIndex + 1] ELSE Num(0)
\* sorted[percentileIndex] || 0
PercentileOrZero(values) ==
    LET sorted == StableSort(values, LAMBDA a, b : Less(b, a))
        percentileIndex == (Len(values) * 3) \div 4
    IN IF percentileIndex < Len(sorted) THEN sorted[percentileIndex + 1] ELSE Num(0)

calculateColorVariance(cv) ==
    LET blockVariances == BlockVariances(cv)
    IN [r |-> PercentileOrZero([j \in 1..Len(blockVariances) |-> blockVariances[j].r]),
        g |-> PercentileOrZero([j \in 1..Len(blockVariances) |-> blockVariances[j].g]),
        b |-> PercentileOrZero([j \in 1..Len(blockVariances) |-> blockVariances[j].b])]

\* calculateColorVariance called on its own: the throw when the canvas has no
\* context, else the variance
VarianceRun ==
    /\ an.pc = "variance"
    /\ an' = IF ContextMissing(canvas)
             THEN [an EXCEPT !.pc = "threw"]
             ELSE [an EXCEPT !.colorVariance = calculateColorVariance(canvas),
                             !.pc = "varianceDone"]
    /\ UNCHANGED <<others, cmp, config, canvas, km, mc, ds>>

---------------------------------------------------------------------------
(* calculateColorVariance, one action per block of the image *)

\* Math.ceil(canvas.width / BLOCK_SIZE), Math.ceil(canvas.height / BLOCK_SIZE)
BlocksX(cv) == (cv.width + BLOCK_SIZE - 1) \div BLOCK_SIZE
BlocksY(cv) == (cv.height + BLOCK_SIZE - 1) \div BLOCK_SIZE

\* the return statement, of the list blockVariances
PercentileResult(blockVariances) ==
    [r |-> PercentileOrZero([j \in 1..Len(blockVariances) |-> blockVariances[j].r]),
     g |-> PercentileOrZero([j \in 1..Len(blockVariances) |-> blockVariances[j].g]),
     b |-> PercentileOrZero([j \in 1..Len(blockVariances) |-> blockVariances[j].b])]

\* block: the blocks gone through (blockY * blocksX + blockX of the next);
\* blocks: of each block gone through, its position, its pixelCount and the
\* entry pushed for it, if any
VrIdle ==
    [pc |-> "idle", block |-> 0, blocks |-> <<>>, blockVariances |-> <<>>,
     result |-> [r |-> Num(0), g |-> Num(0), b |-> Num(0)]]

\* if (!ctx) throw; getImageData
VarianceEnter ==
    /\ vr.pc = "start"
    /\ vr' = [vr EXCEPT !.pc = IF ContextMissing(canvas) THEN "threw" ELSE "blocks"]
    /\ UNCHANGED <<config, canvas, an, km, mc, ds, cmp, rz, md>>

\* one turn of the loops over blockY and blockX: both passes over the block
VarianceBlock ==
    /\ vr.pc = "blocks"
    /\ vr.block < BlocksX(canvas) * BlocksY(canvas)
    /\ \E blockX \in {vr.block % BlocksX(canvas)},
          blockY \in {vr.block \div BlocksX(canvas)} :
         \E ps \in {BlockPixelList(canvas, blockX, blockY)} :
           \E entry \in {IF Cardinality(ps) = 0 THEN <<>>
                         ELSE <<[r |-> BlockChannelVariance(canvas, ps, 0),
                                 g |-> BlockChannelVariance(canvas, ps, 1),
                                 b |-> BlockChannelVariance(canvas, ps, 2)]>>} :
             vr' = [vr EXCEPT
                      !.block = @ + 1,
                      !.blocks = Append(@, [blockX |-> blockX, blockY |-> blockY,
                                            pixelCount |-> Cardinality(ps),
                                            entry |-> entry]),
                      !.blockVariances = @ \o entry]
    /\ UNCHANGED <<config, canvas, an, km, mc, ds, cmp, rz, md>>

\* the sorts and the return
VarianceReturn ==
    /\ vr.pc = "blocks"
    /\ ~(vr.block < BlocksX(canvas) * BlocksY(canvas))
    /\ vr' = [vr EXCEPT !.result = PercentileResult(vr.blockVariances),
                        !.pc = "done"]
    /\ UNCHANGED <<config, canvas, an, km, mc, ds, cmp, rz, md>>

\* an optional field of a VisualMetadata: has is whether it is there
Absent == [has |-> FALSE, value |-> <<>>]
Present(v) == [has |-> TRUE, value |-> v]

---------------------------------------------------------------------------
(* image/resize: calculateDimensions and resizeImageBlob *)

\* Math.round of a positive number, as an integer
RoundedSide(x) == IntOf(MathRound(x))

\* calculateDimensions
calculateDimensions(width, height, maxDimension) ==
    IF width <= maxDimension /\ height <= maxDimension
    THEN [width |-> width, height |-> height]
    ELSE LET aspectRatio == Rat(width, height)
         IN IF width > height
            THEN [width |-> maxDimension,
                  height |-> RoundedSide(Div(Num(maxDimension), aspectRatio))]
            ELSE [width |-> RoundedSide(Mul(Num(maxDimension), aspectRatio)),
                  height |-> maxDimension]

RzIdle == [pc |-> "idle"]
\* resizeImageBlob(imageBlob, maxDimension, options) is entered, for an image
\* of width x height; calculated: calculateDimensions has returned newWidth
\* and newHeight; format, quality: whether options.format and
\* options.quality are given (truthy). created, revoked: the object URLs
\* made by URL.createObjectURL and passed to URL.revokeObjectURL, by number;
\* settled: how the promise returned has settled, returned: what with
RzEntered(width, height, maxDimension, format, quality) ==
    [pc |-> "start", width |-> width, height |-> height,
     maxDimension |-> maxDimension, format |-> format, quality |-> quality,
     calculated |-> FALSE, newWidth |-> 0, newHeight |-> 0, created |-> {}, revoked |-> {},
     src |-> 0, bitmap |-> "none", settled |-> "pending", returned |-> "nothing"]

\* catch (error) { throw new Error('Failed to resize image blob', ...) }
Rejected(frame) == [frame EXCEPT !.pc = "settled", !.settled = "rejected"]

\* loadImage(URL.createObjectURL(imageBlob)): the URL is made, img.src is set
ResizeCreateUrl ==
    /\ rz.pc = "start"
    /\ rz' = [rz EXCEPT !.created = @ \cup {Cardinality(@) + 1},
                        !.src = Cardinality(rz.created) + 1,
                        !.pc = "loading"]
    /\ UNCHANGED <<config, canvas, an, km, mc, ds, cmp, vr, md>>

\* img.onload, then calculateDimensions and the early return
ResizeImageLoaded ==
    /\ rz.pc = "loading"
    /\ \E new \in {calculateDimensions(rz.width, rz.height, rz.maxDimension)} :
         rz' = IF new.width = rz.width /\ new.height = rz.height
                    /\ ~rz.format /\ ~rz.quality
               THEN [rz EXCEPT !.calculated = TRUE,
                               !.newWidth = new.width, !.newHeight = new.height,
                               !.pc = "settled", !.settled = "resolved",
                               !.returned = "imageBlob"]
               ELSE [rz EXCEPT !.calculated = TRUE,
                               !.newWidth = new.width, !.newHeight = new.height,
                               !.pc = "bitmap"]
    /\ UNCHANGED <<config, canvas, an, km, mc, ds, cmp, vr, md>>

\* img.onerror
ResizeImageError ==
    /\ rz.pc = "loading"
    /\ rz' = Rejected(rz)
    /\ UNCHANGED <<config, canvas, an, km, mc, ds, cmp, vr, md>>

\* createImageBitmap resolves, or rejects
ResizeBitmapMade ==
    /\ rz.pc = "bitmap"
    /\ rz' = [rz EXCEPT !.bitmap = "open", !.pc = "context"]
    /\ UNCHANGED <<config, canvas, an, km, mc, ds, cmp, vr, md>>

ResizeBitmapFailed ==
    /\ rz.pc = "bitmap"
    /\ rz' = Rejected(rz)
    /\ UNCHANGED <<config, canvas, an, km, mc, ds, cmp, vr, md>>

\* offscreen.getContext('2d'): a context, and the image is drawn; or null
ResizeDrawn ==
    /\ rz.pc = "context"
    /\ rz' = [rz EXCEPT !.pc = "convert"]
    /\ UNCHANGED <<config, canvas, an, km, mc, ds, cmp, vr, md>>

ResizeNoContext ==
    /\ rz.pc = "context"
    /\ rz' = Rejected(rz)
    /\ UNCHANGED <<config, canvas, an, km, mc, ds, cmp, vr, md>>

\* offscreen.convertToBlob resolves: bitmap.close(), URL.revokeObjectURL(img.src)
ResizeConverted ==
    /\ rz.pc = "convert"
    /\ rz' = [rz EXCEPT !.bitmap = "closed", !.revoked = @ \cup {rz.src},
                        !.pc = "settled", !.settled = "resolved",
                        !.returned = "resizedBlob"]
    /\ UNCHANGED <<config, canvas, an, km, mc, ds, cmp, vr, md>>

ResizeConvertFailed ==
    /\ rz.pc = "convert"
    /\ rz' = Rejected(rz)
    /\ UNCHANGED <<config, canvas, an, km, mc, ds, cmp, vr, md>>

---------------------------------------------------------------------------
(* image/metadata.ts *)

\* the value undefined of an optional string, and JavaScript's a || b on
\* optional strings
Undefined == "undefined"
Truthy(text) == text \notin {Undefined, ""}
OrElse(a, b) == IF Truthy(a) THEN a ELSE b

\* A PNG file after its signature: chunks, each with its type and its data
\* as text split at the NUL characters; truncated: the bytes end inside a
\* chunk, after the chunks listed
\* readPngChunks: the chunks, or the RangeError of a DataView read past the end
readPngChunks(data) ==
    IF data.truncated THEN [threw |-> TRUE, chunks |-> <<>>]
    ELSE [threw |-> FALSE, chunks |-> data.chunks]

NoKeyValue == [found |-> FALSE, key |-> "", value |-> ""]
gettEXtKeyValue(parts) ==
    LET key == IF Len(parts) >= 1 THEN parts[1] ELSE Undefined
        value == IF Len(parts) >= 2 THEN parts[2] ELSE Undefined
    IN IF Truthy(key) /\ Truthy(value)
       THEN [found |-> TRUE, key |-> key, value |-> value]
       ELSE NoKeyValue

getiTXtKeyValue(parts) ==
    IF Len(parts) >= 5 /\ Truthy(parts[1]) /\ Truthy(parts[5])
    THEN [found |-> TRUE, key |-> parts[1], value |-> parts[5]]
    ELSE NoKeyValue

\* the loop over the chunks: metadata[key] = value, later chunks overwriting
RECURSIVE ChunkMetadata(_, _)
ChunkMetadata(chunks, metadata) ==
    IF Len(chunks) = 0 THEN metadata
    ELSE LET chunk == Head(chunks)
             data == IF chunk.type = "tEXt" THEN gettEXtKeyValue(chunk.data)
                     ELSE IF chunk.type = "iTXt" THEN getiTXtKeyValue(chunk.data)
                     ELSE NoKeyValue
         IN ChunkMetadata(Tail(chunks),
                IF data.found
                THEN [key \in DOMAIN metadata \cup {data.key} |->
                        IF key = data.key THEN data.value ELSE metadata[key]]
                ELSE metadata)

\* metadata.Key
Field(metadata, key) == IF key \in DOMAIN metadata THEN metadata[key] ELSE Undefined
RECURSIVE FirstTruthy(_, _)
\* metadata.A || metadata.B || ...: the last operand when none is truthy
FirstTruthy(metadata, keys) ==
    IF Len(keys) = 1 THEN Field(metadata, keys[1])
    ELSE OrElse(Field(metadata, keys[1]), FirstTruthy(metadata, Tail(keys)))

PngFields == {"title", "author", "description", "copyright", "creationTime", "software"}
\* resolve({}) of the catch in reader.onload
EmptyObject == [field \in PngFields |-> Undefined]
\* the object resolved at the end of the try in reader.onload
PngMetadataOf(metadata) ==
    [title |-> FirstTruthy(metadata, <<"Title", "title">>),
     author |-> FirstTruthy(metadata, <<"Author", "author">>),
     description |-> FirstTruthy(metadata, <<"Description", "description", "Comment", "comment">>),
     copyright |-> FirstTruthy(metadata, <<"Copyright", "copyright">>),
     creationTime |-> FirstTruthy(metadata, <<"CreationTime", "creationTime", "Creation_Time">>),
     software |-> FirstTruthy(metadata, <<"Software", "software", "Creator", "creator">>)]

\* reader.onload of extractPngMetadata: what the promise resolves with
extractPngMetadata(data) ==
    LET read == readPngChunks(data)
    IN IF read.threw THEN EmptyObject
       ELSE PngMetadataOf(ChunkMetadata(read.chunks, <<>>))

\* fullPngMetadata
fullPngMetadata(pngMetadata) == [field \in PngFields |-> OrElse(pngMetadata[field], "")]

\* new Date(file.lastModified).toISOString()
ISOString(time) == <<"ISO", time>>
basicMetadata(file, img) ==
    [dateCreated |-> IF file.lastModified # 0
                     THEN Present(ISOString(file.lastModified)) ELSE Absent,
     dateModified |-> IF file.lastModified # 0
                      THEN Present(ISOString(file.lastModified)) ELSE Absent,
     mimeType |-> file.type,
     fileSize |-> file.size,
     originalWidth |-> img.naturalWidth,
     originalHeight |-> img.naturalHeight]

\* the exif block built from what exifr.parse resolved with; exif.date is
\* "none" (no DateTimeOriginal), "date", or "invalid": a Date of which
\* toISOString throws a RangeError
ExifThrows(exif) == exif.has /\ exif.value.date = "invalid"
ExifBlock(exif) ==
    IF exif.has
    THEN Present([camera |-> IF Truthy(exif.value.make)
                             THEN Present(<<exif.value.make, exif.value.model>>) ELSE Absent,
                  dateOriginal |-> IF exif.value.date = "date"
                                   THEN Present(ISOString(1)) ELSE Absent])
    ELSE Absent

MdIdle == [pc |-> "idle"]
\* extractMetadata(file, img) is entered. failure: which of the failures has
\* happened; settled, result: how the promise returned has settled
MdEntered(file, img) ==
    [pc |-> "start", file |-> file, img |-> img, basicMetadata |-> <<>>,
     pngMetadata |-> <<>>, failure |-> "none", settled |-> "pending",
     hasPng |-> FALSE, png |-> <<>>, hasExif |-> FALSE, exif |-> Absent,
     basic |-> <<>>]

CatchRethrows(frame) ==
    [frame EXCEPT !.pc = "settled", !.settled = "rejected"]
\* catch (error) { logger.warn(...); return basicMetadata }
CatchReturnsBasic(frame) ==
    [frame EXCEPT !.pc = "settled", !.settled = "resolved",
                  !.basic = frame.basicMetadata]

\* basicMetadata is built; the PNG branch calls extractPngMetadata, which
\* starts reader.readAsArrayBuffer, the other branch calls exifr.parse
MetadataEnter ==
    /\ md.pc = "start"
    /\ md' = [md EXCEPT !.basicMetadata = basicMetadata(md.file, md.img),
                        !.pc = IF md.file.type = "image/png" THEN "reading" ELSE "exifr"]
    /\ UNCHANGED <<config, canvas, an, km, mc, ds, cmp, vr, rz>>

\* reader.onload: the promise of extractPngMetadata resolves
MetadataReaderLoad ==
    /\ md.pc = "reading"
    /\ md' = [md EXCEPT !.pngMetadata = extractPngMetadata(md.file.data),
                        !.failure = IF readPngChunks(md.file.data).threw
                                    THEN "chunks" ELSE @,
                        !.pc = "png"]
    /\ UNCHANGED <<config, canvas, an, km, mc, ds, cmp, vr, rz>>

\* reader.onerror = reject: the await in extractMetadata throws
MetadataReaderError ==
    /\ md.pc = "reading"
    /\ md' = [md EXCEPT !.failure = "reader", !.pc = "catch"]
    /\ UNCHANGED <<config, canvas, an, km, mc, ds, cmp, vr, rz>>

\* return { ...basicMetadata, png: fullPngMetadata }
MetadataReturnPng ==
    /\ md.pc = "png"
    /\ md' = [md EXCEPT !.pc = "settled", !.settled = "resolved",
                        !.basic = md.basicMetadata,
                        !.hasPng = TRUE, !.png = fullPngMetadata(md.pngMetadata)]
    /\ UNCHANGED <<config, canvas, an, km, mc, ds, cmp, vr, rz>>

\* exifr.parse resolves with exif: return { ...basicMetadata, exif: ... },
\* unless building the block throws
MetadataExifParsed ==
    /\ md.pc = "exifr"
    /\ \E exif \in {Absent} \cup
                   {Present([make |-> make, model |-> "m", date |-> date]) :
                       make \in {Undefined, "Canon"},
                       date \in {"none", "date", "invalid"}} :
         md' = IF ExifThrows(exif)
               THEN [md EXCEPT !.failure = "exif", !.pc = "catch"]
               ELSE [md EXCEPT !.pc = "settled", !.settled = "resolved",
                               !.basic = md.basicMetadata,
                               !.hasExif = TRUE, !.exif = ExifBlock(exif)]
    /\ UNCHANGED <<config, canvas, an, km, mc, ds, cmp, vr, rz>>

\* exifr.parse rejects
MetadataExifFailed ==
    /\ md.pc = "exifr"
    /\ md' = [md EXCEPT !.failure = "exif", !.pc = "catch"]
    /\ UNCHANGED <<config, canvas, an, km, mc, ds, cmp, vr, rz>>

MetadataCatch ==
    /\ md.pc = "catch"
    /\ md' = CatchReturnsBasic(md)
    /\ UNCHANGED <<config, canvas, an, km, mc, ds, cmp, vr, rz>>

---------------------------------------------------------------------------
(* color/sorting.ts: getAverageColor and the comparators by luminance, hue
   and saturation, with the functions of processing.ts they use *)


Black == [r |-> 0, g |-> 0, b |-> 0]
White == [r |-> 255, g |-> 255, b |-> 255]
Red == [r |-> 255, g |-> 0, b |-> 0]
Green == [r |-> 0, g |-> 255, b |-> 0]
\* two dark colours whose channels differ by 8 and by 7
Dim8 == [r |-> 8, g |-> 0, b |-> 0]
Dim7 == [r |-> 7, g |-> 0, b |-> 0]

\* calculatePixelBrightness in two parts, (16473 * whole + 5 * small) /
\* BrightnessUnit: whole from the channels at 255, small from those up to 10
BrightnessWhole(c) ==
    2126 * (IF c.r = 255 THEN 1 ELSE 0) + 7152 * (IF c.g = 255 THEN 1 ELSE 0)
      + 722 * (IF c.b = 255 THEN 1 ELSE 0)
BrightnessSmall(c) ==
    2126 * (IF c.r <= 10 THEN c.r ELSE 0) + 7152 * (IF c.g <= 10 THEN c.g ELSE 0)
      + 722 * (IF c.b <= 10 THEN c.b ELSE 0)
\* a brightness (16473 * whole + 5 * small) / (den * BrightnessUnit)
PixelBrightness(c) ==
    [whole |-> BrightnessWhole(c), small |-> BrightnessSmall(c), den |-> 1]

RECURSIVE LCMUpTo(_)
LCMUpTo(n) == IF n <= 1 THEN 1 ELSE LCM(LCMUpTo(n - 1), n)

\* getWeightedBrightness: entry i (from 0) weighs 1 / (i + 1); the weights are
\* taken over their common denominator
getWeightedBrightness(dominantColors) ==
    IF ~dominantColors.has \/ Len(dominantColors.value) = 0
    THEN [whole |-> 0, small |-> 0, den |-> 1]
    ELSE LET colors == dominantColors.value
             l == LCMUpTo(Len(colors))
         IN [whole |-> SumSeq([j \in 1..Len(colors) |->
                                  BrightnessWhole(colors[j]) * (l \div j)]),
             small |-> SumSeq([j \in 1..Len(colors) |->
                                  BrightnessSmall(colors[j]) * (l \div j)]),
             den |-> SumSeq([j \in 1..Len(colors) |-> l \div j])]

Sign(i) == IF i > 0 THEN 1 ELSE IF i < 0 THEN -1 ELSE 0
\* the sign of x - y for two brightnesses: that of 16473 * X + 5 * Y, where
\* X and Y are the cross differences of the two parts
BrightnessOrder(x, y) ==
    LET X == x.whole * y.den - y.whole * x.den
        Y == x.small * y.den - y.small * x.den
        q == 5 * (Y \div 16473) + (5 * (Y % 16473)) \div 16473
        r == (5 * (Y % 16473)) % 16473
    IN IF X + q > 0 \/ (X + q = 0 /\ r > 0) THEN 1
       ELSE IF X + q = 0 /\ r = 0 THEN 0
       ELSE -1

AlwaysBlack(imageMetadata) == Black
\* getAverageColor: imageMetadata.averageColor || { r: 0, g: 0, b: 0 }
getAverageColor(imageMetadata) ==
    IF imageMetadata.averageColor.has THEN imageMetadata.averageColor.value
    ELSE Black

\* the brightness compareByLuminance takes for an image
LuminanceOf(m) ==
    IF m.dominantColors.has
    THEN getWeightedBrightness(m.dominantColors)
    ELSE PixelBrightness(getAverageColor(m))

\* if (!a.dominantColors || !b.dominantColors) return 0
MissingDominant(a, b) == ~a.dominantColors.has \/ ~b.dominantColors.has

\* compareByLuminance, as the sign of what it returns
BrighterLast(x, y) == BrightnessOrder(y, x)
BrighterFirst(x, y) == BrightnessOrder(x, y)
compareByLuminance(a, b) ==
    IF MissingDominant(a, b) THEN 0
    ELSE BrighterFirst(LuminanceOf(b), LuminanceOf(a))

\* rgbToHsl
rgbToHsl(color) ==
    LET max == Max2(Max2(color.r, color.g), color.b)
        min == Min2(Min2(color.r, color.g), color.b)
        l == Rat(max + min, 510)
        d == max - min
    IN IF max = min THEN [h |-> Num(0), s |-> Num(0), l |-> l]
       ELSE LET s == IF max + min > 255 THEN Rat(d, 510 - max - min)
                     ELSE Rat(d, max + min)
                h == IF max = color.r
                     THEN Add(Rat(color.g - color.b, d),
                              Num(IF color.g < color.b THEN 6 ELSE 0))
                     ELSE IF max = color.g
                     THEN Add(Rat(color.b - color.r, d), Num(2))
                     ELSE Add(Rat(color.r - color.g, d), Num(4))
            IN [h |-> Div(h, Num(6)), s |-> s, l |-> l]

\* isGrayscale with its default threshold 0.05: |x| < 12.75
isGrayscale(color) ==
    /\ 100 * Abs(color.r - color.g) < 5 * 255
    /\ 100 * Abs(color.g - color.b) < 5 * 255
    /\ 100 * Abs(color.r - color.b) < 5 * 255

\* getWeightedHue: -1, or the mean hue of the colours that are not grayscale,
\* each weighing its saturation / (i + 1)
getWeightedHue(colors) ==
    LET EffectiveWeight(j) ==
            IF isGrayscale(colors[j]) THEN Num(0)
            ELSE Mul(Rat(1, j), rgbToHsl(colors[j]).s)
        totalWeight == SumRat([j \in 1..Len(colors) |-> EffectiveWeight(j)])
        weightedHue ==
            SumRat([j \in 1..Len(colors) |->
                       Mul(rgbToHsl(colors[j]).h, EffectiveWeight(j))])
        hasColorfulPixels == \E j \in 1..Len(colors) : ~isGrayscale(colors[j])
    IN IF Len(colors) = 0 THEN Num(-1)
       ELSE IF ~hasColorfulPixels \/ totalWeight = Num(0) THEN Num(-1)
       ELSE Div(weightedHue, totalWeight)

\* a.dominantColors || [getAverageColor(a)]
DominantOrAverage(m) ==
    IF m.dominantColors.has THEN m.dominantColors.value
    ELSE <<getAverageColor(m)>>

RatSign(x) == Sign(x.n)
\* compareByHue, as the sign of what it returns
HueDescending(aHue, bHue) == RatSign(Sub(bHue, aHue))
HueAscending(aHue, bHue) == RatSign(Sub(aHue, bHue))
NeverBothWithoutHue(aHue, bHue) == FALSE
\* if (aHue === -1 && bHue === -1)
BothWithoutHue(aHue, bHue) == aHue = Num(-1) /\ bHue = Num(-1)
compareByHue(a, b) ==
    IF MissingDominant(a, b) THEN 0
    ELSE LET aHue == getWeightedHue(DominantOrAverage(a))
             bHue == getWeightedHue(DominantOrAverage(b))
         IN IF BothWithoutHue(aHue, bHue) THEN compareByLuminance(a, b)
            ELSE IF aHue = Num(-1) THEN 1
            ELSE IF bHue = Num(-1) THEN -1
            ELSE HueAscending(aHue, bHue)

\* compareBySaturation: a colour is grayscale when maxDiff < 8
isColorGrayscale(color) ==
    Max2(Max2(Abs(color.r - color.g), Abs(color.g - color.b)),
         Abs(color.r - color.b)) < 8
\* weight > 0.2 for weight = 1 / (i + 1), position j = i + 1
SignificantFrom02(j) == 10 >= 2 * j
Significant(j) == 10 > 2 * j
getWeightedSaturation(colors) ==
    LET EffectiveSaturation(j) ==
            IF isColorGrayscale(colors[j]) THEN Num(0) ELSE rgbToHsl(colors[j]).s
        weightedSum ==
            SumRat([j \in 1..Len(colors) |-> Mul(EffectiveSaturation(j), Rat(1, j))])
        totalWeight == SumRat([j \in 1..Len(colors) |-> Rat(1, j)])
    IN [saturation |-> Div(weightedSum, totalWeight),
        isGrayscale |-> \A j \in 1..Len(colors) :
                            ~(~isColorGrayscale(colors[j]) /\ Significant(j))]

\* compareBySaturation, as the sign of what it returns
compareBySaturation(a, b) ==
    IF MissingDominant(a, b) THEN 0
    ELSE LET aResult == getWeightedSaturation(DominantOrAverage(a))
             bResult == getWeightedSaturation(DominantOrAverage(b))
         IN IF aResult.isGrayscale /\ ~bResult.isGrayscale THEN 1
            ELSE IF ~aResult.isGrayscale /\ bResult.isGrayscale THEN -1
            ELSE IF aResult.isGrayscale /\ bResult.isGrayscale
            THEN compareByLuminance(a, b)
            ELSE RatSign(Sub(bResult.saturation, aResult.saturation))

\* no call of sorting.ts
NoMetadata == [averageColor |-> Absent, dominantColors |-> Absent]
\* called: the function called, on a (and b); sign: the sign of what it
\* returned; back: the sign of what a second call returned, on b and a;
\* colorScore, diversity: what getColorScore and getDiversityScore gave for
\* the lists of colours they were called on
CmpIdle ==
    [called |-> "idle", a |-> NoMetadata, b |-> NoMetadata, sign |-> 0,
     color |-> Black, swapped |-> FALSE, back |-> 0,
     colorScore |-> <<>>, diversity |-> <<>>]

\* the four functions, called on the metadata a (and b)
GetAverageColor ==
    /\ cmp.called = "none"
    /\ cmp' = [cmp EXCEPT !.called = "getAverageColor",
                          !.color = getAverageColor(cmp.a)]
    /\ UNCHANGED <<others, config, canvas, an, km, mc, ds>>

CompareByLuminance ==
    /\ cmp.called = "none"
    /\ cmp' = [cmp EXCEPT !.called = "compareByLuminance",
                          !.sign = compareByLuminance(cmp.a, cmp.b)]
    /\ UNCHANGED <<others, config, canvas, an, km, mc, ds>>

CompareByHue ==
    /\ cmp.called = "none"
    /\ cmp' = [cmp EXCEPT !.called = "compareByHue",
                          !.sign = compareByHue(cmp.a, cmp.b)]
    /\ UNCHANGED <<others, config, canvas, an, km, mc, ds>>

CompareBySaturation ==
    /\ cmp.called = "none"
    /\ cmp' = [cmp EXCEPT !.called = "compareBySaturation",
                          !.sign = compareBySaturation(cmp.a, cmp.b)]
    /\ UNCHANGED <<others, config, canvas, an, km, mc, ds>>

---------------------------------------------------------------------------
(* color/sorting.ts: the comparators by colour range, dark and bright
   colours, colour diversity and colour temperature.  getColorScore and
   getPerceptualColorDifference go through Math.exp, cos, sin, atan2 and pow;
   what they give for a list of byte colours is a finite number fixed by the
   list, and is a nondeterministic choice made at their first call and kept
   for the later ones. *)

\* aHist && bHist
BothHistograms(a, b) == a.histogram.has /\ b.histogram.has

\* getChannelRange: brightest - darkest over the bins of at least 0.5% of the
\* pixels (bin.count >= hist.totalPixels * 0.005)
getChannelRange(bins, totalPixels) ==
    LET significant == {j \in 1..Len(bins) : 200 * bins[j].count >= totalPixels}
        darkest == SetMin({255} \cup {bins[j].value : j \in significant})
        brightest == SetMax({0} \cup {bins[j].value : j \in significant})
    IN brightest - darkest
getColorRangeScore(hist) ==
    Rat(299 * getChannelRange(hist.r, hist.totalPixels)
          + 587 * getChannelRange(hist.g, hist.totalPixels)
          + 114 * getChannelRange(hist.b, hist.totalPixels), 1000)

\* the difference of two brightnesses, and no difference
BrightnessLess(x, y) ==
    [whole |-> x.whole - y.whole, small |-> x.small - y.small, den |-> 1]
NoBrightness == [whole |-> 0, small |-> 0, den |-> 1]
\* getPaletteRange: the greatest less the least brightness of the colours
getPaletteRange(colors) ==
    IF Len(colors) <= 1 THEN NoBrightness
    ELSE LET brightnesses == [j \in 1..Len(colors) |-> PixelBrightness(colors[j])]
             minBrightness ==
                 brightnesses[CHOOSE i \in 1..Len(colors) : \A j \in 1..Len(colors) :
                                  BrightnessOrder(brightnesses[i], brightnesses[j]) <= 0]
             maxBrightness ==
                 brightnesses[CHOOSE i \in 1..Len(colors) : \A j \in 1..Len(colors) :
                                  BrightnessOrder(brightnesses[i], brightnesses[j]) >= 0]
         IN BrightnessLess(maxBrightness, minBrightness)

\* a.distinctPaletteColors || a.dominantColors || [getAverageColor(a)]
RangeColors(m) ==
    IF m.distinctPaletteColors.has THEN m.distinctPaletteColors.value
    ELSE DominantOrAverage(m)

\* compareByColorRange, as the sign of what it returns
compareByColorRange(a, b) ==
    IF BothHistograms(a, b)
    THEN RatSign(Sub(getColorRangeScore(b.histogram.value),
                     getColorRangeScore(a.histogram.value)))
    ELSE BrightnessOrder(getPaletteRange(RangeColors(b)),
                         getPaletteRange(RangeColors(a)))

\* the bins from `from' (an index from 0) on, each count times the weight of
\* its place i among them
WeightedBins(bins, from, n, Weight(_)) ==
    SumRat([i \in 1..n |-> Mul(Num(bins[from + i].count), Weight(i - 1))])
\* getDarknessScore: the darkest quarter of the bins, weight 1 - i / darkBinCount
getDarknessScore(hist) ==
    LET darkBinCount == Len(hist.r) \div 4
        Dark(bins) == WeightedBins(bins, 0, Min2(darkBinCount, Len(bins)),
                                   LAMBDA i : Sub(Num(1), Rat(i, darkBinCount)))
    IN Div(Add(Add(Mul(Dark(hist.r), Rat(299, 1000)), Mul(Dark(hist.g), Rat(587, 1000))),
               Mul(Dark(hist.b), Rat(114, 1000))),
           Num(hist.totalPixels))
\* getBrightnessScore: the brightest quarter, weight (i + 1) / (length - start)
getBrightnessScore(hist) ==
    LET brightBinStart == (3 * Len(hist.r)) \div 4
        Bright(bins) ==
            WeightedBins(bins, brightBinStart, Len(bins) - brightBinStart,
                         LAMBDA i : Rat(i + 1, Len(bins) - brightBinStart))
    IN Div(Add(Add(Mul(Bright(hist.r), Rat(299, 1000)),
                   Mul(Bright(hist.g), Rat(587, 1000))),
               Mul(Bright(hist.b), Rat(114, 1000))),
           Num(hist.totalPixels))

\* what getColorScore may give: numbers from 0 to 1
ColorScores == {Rat(1, 4), Rat(1, 2)}
\* return 1 - getDarknessFromColors(bColors) - (1 - getDarknessFromColors(aColors))
compareByDarkColors(a, b, colorScore) ==
    IF BothHistograms(a, b)
    THEN RatSign(Sub(getDarknessScore(b.histogram.value),
                     getDarknessScore(a.histogram.value)))
    ELSE RatSign(Sub(Sub(Num(1), colorScore[DominantOrAverage(b)]),
                     Sub(Num(1), colorScore[DominantOrAverage(a)])))
compareByBrightColors(a, b, colorScore) ==
    IF BothHistograms(a, b)
    THEN RatSign(Sub(getBrightnessScore(b.histogram.value),
                     getBrightnessScore(a.histogram.value)))
    ELSE RatSign(Sub(colorScore[DominantOrAverage(b)],
                     colorScore[DominantOrAverage(a)]))

\* a.distinctPaletteColors || a.representativePaletteColors || [getAverageColor(a)]
DiversityColors(m) ==
    IF m.distinctPaletteColors.has THEN m.distinctPaletteColors.value
    ELSE IF m.representativePaletteColors.has THEN m.representativePaletteColors.value
    ELSE <<getAverageColor(m)>>
\* what the mean perceptual difference of two or more colours may be
Diversities == {Num(0), Num(50)}
\* getDiversityScore: 0 for at most one colour
getDiversityScore(colors, diversity) ==
    IF Len(colors) <= 1 THEN Num(0) ELSE diversity[colors]
compareByColorDiversity(a, b, diversity) ==
    RatSign(Sub(getDiversityScore(DiversityColors(b), diversity),
                getDiversityScore(DiversityColors(a), diversity)))

\* getColorTemperature: the mean of (r - b) / 255, colour i weighing 1 / (i + 1)
getColorTemperature(colors) ==
    Div(SumRat([j \in 1..Len(colors) |->
                   Mul(Rat(colors[j].r - colors[j].b, 255), Rat(1, j))]),
        SumRat([j \in 1..Len(colors) |-> Rat(1, j)]))
compareByColorTemperature(a, b) ==
    IF MissingDominant(a, b) THEN 0
    ELSE RatSign(Sub(getColorTemperature(DominantOrAverage(b)),
                     getColorTemperature(DominantOrAverage(a))))

\* the calls of the five comparators on a and b
CompareByColorRange ==
    /\ cmp.called = "none"
    /\ cmp' = [cmp EXCEPT !.called = "compareByColorRange",
                          !.sign = compareByColorRange(cmp.a, cmp.b)]
    /\ UNCHANGED <<others, config, canvas, an, km, mc, ds>>

\* getColorScore is called when a histogram is missing
CompareByDarkColors ==
    /\ cmp.called = "none"
    /\ \E colorScore \in
           IF BothHistograms(cmp.a, cmp.b) THEN {<<>>}
           ELSE [{DominantOrAverage(cmp.a), DominantOrAverage(cmp.b)} -> ColorScores] :
         cmp' = [cmp EXCEPT !.called = "compareByDarkColors",
                            !.colorScore = colorScore,
                            !.sign = compareByDarkColors(cmp.a, cmp.b, colorScore)]
    /\ UNCHANGED <<others, config, canvas, an, km, mc, ds>>

CompareByBrightColors ==
    /\ cmp.called = "none"
    /\ \E colorScore \in
           IF BothHistograms(cmp.a, cmp.b) THEN {<<>>}
           ELSE [{DominantOrAverage(cmp.a), DominantOrAverage(cmp.b)} -> ColorScores] :
         cmp' = [cmp EXCEPT !.called = "compareByBrightColors",
                            !.colorScore = colorScore,
                            !.sign = compareByBrightColors(cmp.a, cmp.b, colorScore)]
    /\ UNCHANGED <<others, config, canvas, an, km, mc, ds>>

CompareByColorDiversity ==
    /\ cmp.called = "none"
    /\ \E diversity \in
           [{DiversityColors(cmp.a), DiversityColors(cmp.b)} -> Diversities] :
         cmp' = [cmp EXCEPT !.called = "compareByColorDiversity",
                            !.diversity = diversity,
                            !.sign = compareByColorDiversity(cmp.a, cmp.b, diversity)]
    /\ UNCHANGED <<others, config, canvas, an, km, mc, ds>>

CompareByColorTemperature ==
    /\ cmp.called = "none"
    /\ cmp' = [cmp EXCEPT !.called = "compareByColorTemperature",
                          !.sign = compareByColorTemperature(cmp.a, cmp.b)]
    /\ UNCHANGED <<others, config, canvas, an, km, mc, ds>>

\* the comparator that was called, called again on b and a
CompareSwapped ==
    /\ cmp.called \notin {"idle", "none", "getAverageColor"}
    /\ ~cmp.swapped
    /\ cmp' = [cmp EXCEPT
                 !.swapped = TRUE,
                 !.back =
                    CASE cmp.called = "compareByLuminance" ->
                            compareByLuminance(cmp.b, cmp.a)
                      [] cmp.called = "compareByHue" -> compareByHue(cmp.b, cmp.a)
                      [] cmp.called = "compareBySaturation" ->
                            compareBySaturation(cmp.b, cmp.a)
                      [] cmp.called = "compareByColorRange" ->
                            compareByColorRange(cmp.b, cmp.a)
                      [] cmp.called = "compareByDarkColors" ->
                            compareByDarkColors(cmp.b, cmp.a, cmp.colorScore)
                      [] cmp.called = "compareByBrightColors" ->
                            compareByBrightColors(cmp.b, cmp.a, cmp.colorScore)
                      [] cmp.called = "compareByColorDiversity" ->
                            compareByColorDiversity(cmp.b, cmp.a, cmp.diversity)
                      [] cmp.called = "compareByColorTemperature" ->
                            compareByColorTemperature(cmp.b, cmp.a)]
    /\ UNCHANGED <<others, config, canvas, an, km, mc, ds>>

---------------------------------------------------------------------------
(* analyzeImageColors: the calls of the extractors, the result *)

AnalyzeCallDominant ==
    /\ an.pc = "dominant"
    /\ km' = KmEntered(an.colorCounts, config.DOMINANT_COLORS_COUNT, "analyze")
    /\ an' = [an EXCEPT !.pc = "dominantCalled"]
    /\ UNCHANGED <<others, cmp, config, canvas, mc, ds>>

AnalyzeDominantReturned ==
    /\ an.pc = "dominantCalled"
    /\ km.pc = "done"
    /\ an' = [an EXCEPT !.dominantColors = km.result, !.pc = "palette"]
    /\ km' = KmIdle
    /\ UNCHANGED <<others, cmp, config, canvas, mc, ds>>

AnalyzeCallPalette ==
    /\ an.pc = "palette"
    /\ mc' = PaletteEntered(config.PALETTE_COLORS_COUNT, "analyze")
    /\ an' = [an EXCEPT !.pc = "paletteCalled"]
    /\ UNCHANGED <<others, cmp, config, canvas, km, ds>>

AnalyzePaletteReturned ==
    /\ an.pc = "paletteCalled"
    /\ mc.pc = "done" /\ mc.caller = "analyze"
    /\ an' = [an EXCEPT !.representativePaletteColors = mc.result, !.pc = "distinct"]
    /\ mc' = McIdle
    /\ UNCHANGED <<others, cmp, config, canvas, km, ds>>

AnalyzeCallDistinct ==
    /\ an.pc = "distinct"
    /\ ds' = DistinctEntered(config.PALETTE_COLORS_COUNT, CANDIDATE_SIZE_FACTOR,
                             "analyze")
    /\ an' = [an EXCEPT !.pc = "distinctCalled"]
    /\ UNCHANGED <<others, cmp, config, canvas, km, mc>>

\* the distinct palette is back; brightness, colour variance, the result
AnalyzeResult ==
    /\ an.pc = "distinctCalled"
    /\ ds.pc = "done"
    /\ LET totalPixels == Len(canvas.pixels) \div 4
       IN an' = [an EXCEPT
                   !.distinctPaletteColors = ds.result,
                   !.brightness =
                       [averageBrightness |->
                            Div(Num(an.totalBrightness), Num(totalPixels)),
                        brightnessRange |-> [min |-> an.minBrightness,
                                             max |-> an.maxBrightness]],
                   !.colorVariance = calculateColorVariance(canvas),
                   !.pc = "done"]
    /\ ds' = DsIdle
    /\ UNCHANGED <<others, cmp, config, canvas, km, mc>>

\* the constants of ~/constants/color: any counts from 1 to MaxCount
Configs ==
    [DOMINANT_COLORS_COUNT : 1..MaxCount, PALETTE_COLORS_COUNT : 1..MaxCount]
NoConfig == [DOMINANT_COLORS_COUNT |-> 1, PALETTE_COLORS_COUNT |-> 1]

Init ==
    /\ cmp = CmpIdle
    /\ vr = VrIdle
    /\ rz = RzIdle
    /\ md = MdIdle
    /\ config \in Configs
    /\ canvas \in CanvasesOf(AnalyzedColors)
    /\ an = AnalyzeLocals
    /\ km = KmIdle
    /\ mc = McIdle
    /\ ds = DsIdle

Next ==
    \/ AnalyzeGetContext
    \/ AnalyzeScanPixel
    \/ AnalyzeAverage
    \/ AnalyzeCallDominant
    \/ DominantStart
    \/ SeedFirst
    \/ SeedNext
    \/ KMeansEnter
    \/ KMeansPass
    \/ DominantOutput
    \/ AnalyzeDominantReturned
    \/ AnalyzeCallPalette
    \/ PaletteStart
    \/ QuantizeStart
    \/ QuantizeSplit
    \/ QuantizeReturn
    \/ AnalyzePaletteReturned
    \/ AnalyzeCallDistinct
    \/ DistinctCallPalette
    \/ DistinctCandidates
    \/ DistinctSelect
    \/ DistinctReturn
    \/ AnalyzeResult

Spec == Init /\ [][Next]_vars

---------------------------------------------------------------------------
(* extractDominantColors called on its own *)

NoCanvas == [width |-> 0, height |-> 0, ctx |-> TRUE, pixels |-> <<>>]
AnIdle == [AnalyzeLocals EXCEPT !.pc = "idle"]

\* the colours counted in the maps given to extractDominantColors
CountedColors ==
    {<<255, 0, 0>>, <<0, 255, 0>>, <<0, 0, 255>>, <<170, 85, 0>>}

\* the map that counting a sequence of colours builds
RECURSIVE CountColors(_)
CountColors(cs) ==
    IF cs = <<>> THEN <<>>
    ELSE MapIncrement(CountColors(SubSeq(cs, 1, Len(cs) - 1)),
                      ColorKey(cs[Len(cs)][1], cs[Len(cs)][2], cs[Len(cs)][3]))

\* a key that does not split into three parts ("1,2") is dropped with a warning
MalformedEntry == [key |-> <<1, 2>>, count |-> 1]
\* the map of the 2x2 image (255,0,0), (255,0,0), (0,255,0), (0,0,255)
TwoByTwoMap ==
    CountColors(<<<<255, 0, 0>>, <<255, 0, 0>>, <<0, 255, 0>>, <<0, 0, 255>>>>)
\* a map whose weighted mean, (170,85,0), is one of its colours
MeanIsColorMap ==
    CountColors(<<<<255, 0, 0>>, <<255, 0, 0>>, <<0, 255, 0>>, <<170, 85, 0>>>>)
\* a map with two colours one unit either side of their mean
UnitMoveMap ==
    CountColors(<<<<0, 0, 255>>, <<2, 0, 255>>, <<255, 0, 0>>>>)
ColorMaps ==
    {CountColors(cs) : cs \in SeqsUpTo(CountedColors, MaxPixels)}
        \cup {TwoByTwoMap, MeanIsColorMap, UnitMoveMap, <<MalformedEntry>>,
              <<MalformedEntry>> \o CountColors(<<<<255, 0, 0>>, <<0, 255, 0>>>>)}

InitDominant ==
    /\ cmp = CmpIdle
    /\ vr = VrIdle
    /\ rz = RzIdle
    /\ md = MdIdle
    /\ config = NoConfig
    /\ canvas = NoCanvas
    /\ an = AnIdle
    /\ \E colorCounts \in ColorMaps, k \in 0..MaxCount :
         km = KmEntered(colorCounts, k, "none")
    /\ mc = McIdle
    /\ ds = DsIdle

NextDominant ==
    \/ DominantStart
    \/ SeedFirst
    \/ SeedNext
    \/ KMeansEnter
    \/ KMeansPass
    \/ DominantOutput

SpecDominant == InitDominant /\ [][NextDominant]_vars

---------------------------------------------------------------------------
(* extractColorPalette and medianCutQuantize called on their own *)

\* the largest number of points in a list given to medianCutQuantize
MaxPoints == 3
\* the largest count of a point in such a list
MaxWeight == 3

WeightedPoints ==
    {[r |-> c[1], g |-> c[2], b |-> c[3], count |-> Num(w)] :
        c \in {<<255, 0, 0>>, <<0, 255, 0>>, <<8, 7, 10>>}, w \in 1..MaxWeight}

InitPalette ==
    /\ cmp = CmpIdle
    /\ vr = VrIdle
    /\ rz = RzIdle
    /\ md = MdIdle
    /\ config = NoConfig
    /\ canvas \in Canvases
    /\ an = AnIdle
    /\ km = KmIdle
    /\ \/ \E paletteSize \in 0..MaxCount :
            mc = PaletteEntered(paletteSize, "none")
       \/ /\ canvas = NoCanvas
          /\ \E paletteSize \in 0..MaxPoints :
               \E data \in SeqsUpTo(WeightedPoints, MaxPoints) :
                   mc = QuantizeEntered(data, paletteSize, "none")
    /\ ds = DsIdle

NextPalette ==
    \/ PaletteStart
    \/ QuantizeStart
    \/ QuantizeSplit
    \/ QuantizeReturn

SpecPalette == InitPalette /\ [][NextPalette]_vars

---------------------------------------------------------------------------
(* extractDistinctColorPalette called on its own *)

\* the largest candidateSizeFactor
MaxFactor == 3

InitDistinct ==
    /\ cmp = CmpIdle
    /\ vr = VrIdle
    /\ rz = RzIdle
    /\ md = MdIdle
    /\ config = NoConfig
    /\ canvas \in Canvases
    /\ an = AnIdle
    /\ km = KmIdle
    /\ mc = McIdle
    /\ \E distinctCount \in 0..MaxCount, candidateSizeFactor \in 1..MaxFactor :
         ds = DistinctEntered(distinctCount, candidateSizeFactor, "none")

NextDistinct ==
    \/ DistinctCallPalette
    \/ PaletteStart
    \/ QuantizeStart
    \/ QuantizeSplit
    \/ QuantizeReturn
    \/ DistinctThrow
    \/ DistinctCandidates
    \/ DistinctSelect
    \/ DistinctReturn

SpecDistinct == InitDistinct /\ [][NextDistinct]_vars

---------------------------------------------------------------------------
(* Claims about extractDominantColors, under SpecDominant *)

DominantDone == km.pc = "done"
TwoByTwoDone == DominantDone /\ km.k = 2 /\ km.colorCounts = TwoByTwoMap

\* C2, as claimed: for the 2x2 image and K = 2 every outcome of the seeding
\* returns a sequence that contains {255,0,0} and has it first.
C2_RedRankedFirst ==
    TwoByTwoDone =>
        /\ \E i \in 1..Len(km.result) : km.result[i] = Red
        /\ km.result[1] = Red

\* C2, amended: for the 2x2 image and K = 2 every outcome of the seeding
\* returns one of three sequences of two colours, none with {255,0,0} first:
\* red merged with green, red merged with blue (weights 3 and 1), or green
\* merged with blue and listed before red (weights 2 and 2).
C2_TwoByTwoOutcomes ==
    TwoByTwoDone =>
        km.result \in
            {<<[r |-> 170, g |-> 85, b |-> 0], [r |-> 0, g |-> 0, b |-> 255]>>,
             <<[r |-> 170, g |-> 0, b |-> 85], [r |-> 0, g |-> 255, b |-> 0]>>,
             <<[r |-> 0, g |-> 128, b |-> 128], Red>>}

C2_Witness ==
    /\ TwoByTwoDone
    /\ km.result = <<[r |-> 0, g |-> 128, b |-> 128], Red>>

\* C3, as claimed: for every map and every K the result has at most K
\* colours, and when the map has at most K colours the result is exactly those
\* colours, each once, and no clustering ran.
C3_AtMostK ==
    DominantDone =>
        /\ Len(km.result) <= km.k
        /\ Len(km.data) <= km.k =>
              /\ ~km.clustered
              /\ km.result = [j \in 1..Len(km.data) |-> PointColor(km.data[j])]

\* the rounding of a centroid channel x, stated apart from MathRound: the
\* integer n in 0..255 with n - 1/2 <= x < n + 1/2
IsRounded(n, x) ==
    /\ n \in 0..255
    /\ (2 * n - 1) * x.d <= 2 * x.n
    /\ 2 * x.n < (2 * n + 1) * x.d
\* the count of the points the last assignment pass gave to cluster i
AssignedCount(i) ==
    SumSeq([j \in 1..Len(km.data) |->
               IF km.assigned[j] = i THEN km.data[j].count ELSE 0])
Permutations(n) ==
    {f \in [1..n -> 1..n] : \A i, j \in 1..n : f[i] = f[j] => i = j}

\* C5: when extractDominantColors clusters, the colours returned are the final
\* centroids, each channel rounded (and within 0..255), listed in
\* non-increasing order of the count the last assignment pass gave the cluster.
C5_OrderedByWeight ==
    (DominantDone /\ km.clustered) =>
        \E f \in Permutations(Len(km.centroids)) :
            /\ Len(km.result) = Len(km.centroids)
            /\ \A i \in 1..Len(km.result) :
                 /\ IsRounded(km.result[i].r, km.centroids[f[i]].r)
                 /\ IsRounded(km.result[i].g, km.centroids[f[i]].g)
                 /\ IsRounded(km.result[i].b, km.centroids[f[i]].b)
            /\ \A i \in 1..(Len(km.result) - 1) :
                 AssignedCount(f[i]) >= AssignedCount(f[i + 1])

\* a clustered result whose clusters differ in weight, the lighter found first
C5_Witness ==
    /\ DominantDone
    /\ km.clustered
    /\ Len(km.result) = 2
    /\ km.clusterWeights[1] < km.clusterWeights[2]
    /\ km.result[1] # km.result[2]

---------------------------------------------------------------------------
(* The functions of color/sorting.ts called on their own *)

\* the longest list of dominant colours drawn freely
MaxDominant == 2
\* the most black entries put in front of a colour
MaxPadding == 4

SortColors == {Black, White, Red, Green, Dim8, Dim7}

Padded(n, c) == [j \in 1..(n + 1) |-> IF j <= n THEN Black ELSE c]
DominantLists ==
    SeqsUpTo(SortColors, MaxDominant)
      \cup {Padded(n, c) : n \in 1..MaxPadding, c \in {Dim8, Red}}

\* the metadata compared: the average colour varies where it can matter, with
\* the dominant colours missing or empty
Metadatas ==
    {[averageColor |-> Present(Black), dominantColors |-> Present(l)] :
        l \in DominantLists \ {<<>>}}
      \cup [averageColor : {Absent, Present(White), Present(Dim8)},
            dominantColors : {Absent, Present(<<>>)}]

InitSorting ==
    /\ vr = VrIdle
    /\ rz = RzIdle
    /\ md = MdIdle
    /\ config = NoConfig
    /\ canvas = NoCanvas
    /\ an = AnIdle
    /\ km = KmIdle
    /\ mc = McIdle
    /\ ds = DsIdle
    /\ \E a \in Metadatas, b \in Metadatas :
         cmp = [CmpIdle EXCEPT !.called = "none", !.a = a, !.b = b]

NextSorting ==
    \/ GetAverageColor
    \/ CompareByLuminance
    \/ CompareByHue
    \/ CompareBySaturation

SpecSorting == InitSorting /\ [][NextSorting]_vars

---------------------------------------------------------------------------
(* The three functions that ask the canvas for its context, each called on
   its own *)

InitContext ==
    /\ cmp = CmpIdle
    /\ vr = VrIdle
    /\ rz = RzIdle
    /\ md = MdIdle
    /\ km = KmIdle
    /\ ds = DsIdle
    /\ \/ /\ config \in Configs
          /\ canvas \in CanvasesOf(AnalyzedColors)
          /\ an = AnalyzeLocals
          /\ mc = McIdle
       \/ /\ config = NoConfig
          /\ canvas \in Canvases
          /\ an = AnIdle
          /\ \E paletteSize \in 1..MaxCount : mc = PaletteEntered(paletteSize, "none")
       \/ /\ config = NoConfig
          /\ canvas \in Canvases
          /\ an = [AnIdle EXCEPT !.pc = "variance"]
          /\ mc = McIdle

NextContext ==
    \/ Next
    \/ VarianceRun

SpecContext == InitContext /\ [][NextContext]_vars

---------------------------------------------------------------------------
(* calculateColorVariance on images of several blocks *)

\* the largest number of blocks in a row or a column of blocks
MaxBlocks == 4

\* how a block is filled: the colour at offset k (x - startX + y - startY).
\* red: two colours differing in r; green: colours differing in g, every
\* fourth pixel with a zero channel; zeros: zero channels only
BlockPatterns == {"red", "green", "zeros"}
PatternColor(pattern, k) ==
    CASE pattern = "red" -> IF k % 2 = 0 THEN <<2, 2, 2>> ELSE <<6, 2, 2>>
      [] pattern = "green" ->
            IF k % 4 = 2 THEN <<3, 0, 3>>
            ELSE IF k % 4 = 1 THEN <<3, 5, 3>> ELSE <<3, 1, 3>>
      [] pattern = "zeros" -> IF k % 2 = 0 THEN <<0, 4, 4>> ELSE <<4, 4, 0>>

\* the colours of a strip of blocks, each filled with its pattern; the last
\* block is `last' pixels long
RECURSIVE StripColors(_, _)
StripColors(patterns, last) ==
    IF patterns = <<>> THEN <<>>
    ELSE [k \in 1..(IF Len(patterns) = 1 THEN last ELSE BLOCK_SIZE) |->
             PatternColor(Head(patterns), k - 1)]
           \o StripColors(Tail(patterns), last)

\* the images one block high or one block wide
StripCanvases ==
    {[width |-> IF wide THEN Len(cs) ELSE 1,
      height |-> IF wide THEN 1 ELSE Len(cs),
      ctx |-> TRUE, pixels |-> ImageBytes(cs)] :
        wide \in BOOLEAN,
        cs \in {StripColors(patterns, last) :
                   patterns \in SeqsUpTo(BlockPatterns, MaxBlocks) \ {<<>>},
                   last \in {1, BLOCK_SIZE}}}

\* the images of 17 by 17 pixels: blocks of 16x16, 1x16, 16x1 and 1x1 pixels
SquareCanvases ==
    {[width |-> BLOCK_SIZE + 1, height |-> BLOCK_SIZE + 1, ctx |-> TRUE,
      pixels |-> ImageBytes(
          [q \in 1..((BLOCK_SIZE + 1) * (BLOCK_SIZE + 1)) |->
              LET x == (q - 1) % (BLOCK_SIZE + 1)
                  y == (q - 1) \div (BLOCK_SIZE + 1)
              IN PatternColor(patterns[2 * (y \div BLOCK_SIZE) + (x \div BLOCK_SIZE) + 1],
                              (x % BLOCK_SIZE) + (y % BLOCK_SIZE))])] :
        patterns \in [1..4 -> BlockPatterns]}

InitVariance ==
    /\ config = NoConfig
    /\ canvas \in StripCanvases \cup SquareCanvases
                    \cup {NoCanvas, [NoCanvas EXCEPT !.ctx = FALSE]}
    /\ an = AnIdle
    /\ km = KmIdle
    /\ mc = McIdle
    /\ ds = DsIdle
    /\ cmp = CmpIdle
    /\ vr = [VrIdle EXCEPT !.pc = "start"]
    /\ rz = RzIdle
    /\ md = MdIdle

NextVariance ==
    \/ VarianceEnter
    \/ VarianceBlock
    \/ VarianceReturn

SpecVariance == InitVariance /\ [][NextVariance]_vars

---------------------------------------------------------------------------
(* The histogram of buffers whose channels take every value of a byte *)

\* buffers of one and of two pixels; v runs over the bytes
ByteCanvases ==
    {[width |-> Len(cs), height |-> 1, ctx |-> TRUE, pixels |-> ImageBytes(cs)] :
        cs \in {<<<<v, 255 - v, (v + 128) % 256>>>> : v \in 0..255}
                 \cup {<<<<v, v, 255 - v>>, <<(7 * v + 3) % 256, 255 - v, 255>>>> :
                          v \in 0..255}}

InitHistogram ==
    /\ config = NoConfig
    /\ canvas \in ByteCanvases
    /\ an = [AnalyzeLocals EXCEPT !.pc = "histogram"]
    /\ km = KmIdle
    /\ mc = McIdle
    /\ ds = DsIdle
    /\ cmp = CmpIdle
    /\ vr = VrIdle
    /\ rz = RzIdle
    /\ md = MdIdle

NextHistogram == HistogramPixel

SpecHistogram == InitHistogram /\ [][NextHistogram]_vars

---------------------------------------------------------------------------
(* The comparators of sorting.ts on complete metadata *)

\* the histogram analyzeImageColors makes of a list of colours
RECURSIVE HistogramFrom(_, _)
HistogramFrom(histogram, colors) ==
    IF colors = <<>> THEN histogram
    ELSE HistogramFrom(updateHistogram(histogram, Head(colors).r, Head(colors).g,
                                       Head(colors).b), Tail(colors))
HistogramOf(colors) ==
    [HistogramFrom(initializeHistogram, colors) EXCEPT !.totalPixels = Len(colors)]

\* metadata whose dominant colours and palettes are not empty, with and
\* without a histogram
CompleteMetadatas ==
    {[averageColor |-> Present(Black),
      dominantColors |-> Present(dominant),
      representativePaletteColors |-> Present(<<Black>>),
      distinctPaletteColors |-> Present(distinct),
      histogram |-> histogram] :
        dominant \in {<<Red>>, <<Dim7>>, <<White, Black>>, <<Dim8, Green>>},
        distinct \in {<<White>>, <<White, Black>>, <<Dim8, Black>>},
        histogram \in {Absent, Present(HistogramOf(<<Black>>)),
                       Present(HistogramOf(<<Black, White, White>>))}}

InitComparators ==
    /\ config = NoConfig
    /\ canvas = NoCanvas
    /\ an = AnIdle
    /\ km = KmIdle
    /\ mc = McIdle
    /\ ds = DsIdle
    /\ vr = VrIdle
    /\ rz = RzIdle
    /\ md = MdIdle
    /\ \E a \in CompleteMetadatas, b \in CompleteMetadatas :
         cmp = [CmpIdle EXCEPT !.called = "none", !.a = a, !.b = b]

NextComparators ==
    \/ CompareByLuminance
    \/ CompareByHue
    \/ CompareBySaturation
    \/ CompareByColorRange
    \/ CompareByDarkColors
    \/ CompareByBrightColors
    \/ CompareByColorDiversity
    \/ CompareByColorTemperature
    \/ CompareSwapped

SpecComparators == InitComparators /\ [][NextComparators]_vars

---------------------------------------------------------------------------
(* resizeImageBlob on images of small sides *)

\* the longest side of an image and the largest maxDimension
MaxSide == 6

InitResize ==
    /\ config = NoConfig
    /\ canvas = NoCanvas
    /\ an = AnIdle
    /\ km = KmIdle
    /\ mc = McIdle
    /\ ds = DsIdle
    /\ cmp = CmpIdle
    /\ vr = VrIdle
    /\ md = MdIdle
    /\ \E width \in 1..MaxSide, height \in 1..MaxSide, maxDimension \in 1..MaxSide,
          format \in BOOLEAN, quality \in BOOLEAN :
         rz = RzEntered(width, height, maxDimension, format, quality)

NextResize ==
    \/ ResizeCreateUrl
    \/ ResizeImageLoaded
    \/ ResizeImageError
    \/ ResizeBitmapMade
    \/ ResizeBitmapFailed
    \/ ResizeDrawn
    \/ ResizeNoContext
    \/ ResizeConverted
    \/ ResizeConvertFailed

SpecResize == InitResize /\ [][NextResize]_vars

---------------------------------------------------------------------------
(* extractMetadata on small files *)

\* the most chunks in a PNG file
MaxChunks == 2

PngChunks ==
    {[type |-> "tEXt", data |-> <<"Title", "t">>],
     [type |-> "tEXt", data |-> <<"title", "u">>],
     [type |-> "tEXt", data |-> <<"Title">>],
     [type |-> "iTXt", data |-> <<"Author", "", "", "", "a">>],
     [type |-> "IDAT", data |-> <<"x">>]}

FileDatas ==
    {[chunks |-> chunks, truncated |-> truncated] :
        chunks \in SeqsUpTo(PngChunks, MaxChunks), truncated \in BOOLEAN}

Files ==
    {[type |-> "image/png", size |-> 8 + 12 * Len(data.chunks),
      lastModified |-> lastModified, data |-> data] :
        data \in FileDatas, lastModified \in {0, 1}}
    \cup {[type |-> "image/jpeg", size |-> size, lastModified |-> lastModified,
           data |-> [chunks |-> <<>>, truncated |-> FALSE]] :
            size \in {0, 2}, lastModified \in {0, 1}}

Images == {[naturalWidth |-> w, naturalHeight |-> 1] : w \in {0, 2}}

InitMetadata ==
    /\ config = NoConfig
    /\ canvas = NoCanvas
    /\ an = AnIdle
    /\ km = KmIdle
    /\ mc = McIdle
    /\ ds = DsIdle
    /\ cmp = CmpIdle
    /\ vr = VrIdle
    /\ rz = RzIdle
    /\ \E file \in Files, img \in Images : md = MdEntered(file, img)

NextMetadata ==
    \/ MetadataEnter
    \/ MetadataReaderLoad
    \/ MetadataReaderError
    \/ MetadataReturnPng
    \/ MetadataExifParsed
    \/ MetadataExifFailed
    \/ MetadataCatch

SpecMetadata == InitMetadata /\ [][NextMetadata]_vars

---------------------------------------------------------------------------
(* Claims about analyzeImageColors, under Spec *)

AnalyzeDone == an.pc = "done"
BinCounts(bins) == SumSeq([j \in 1..Len(bins) |-> bins[j].count])
\* the sum of channel ch (1, 2, 3) over the pixels of the canvas
ChannelTotal(ch) ==
    SumSeq([p \in 1..(Len(canvas.pixels) \div 4) |-> canvas.pixels[4 * (p - 1) + ch]])

\* C1: after analyzeImageColors the bin counts of each of histogram.r,
\* histogram.g and histogram.b sum to histogram.totalPixels, the number of
\* pixels of the buffer.
C1_HistogramSums ==
    AnalyzeDone =>
        /\ an.histogram.totalPixels = canvas.width * canvas.height
        /\ BinCounts(an.histogram.r) = an.histogram.totalPixels
        /\ BinCounts(an.histogram.g) = an.histogram.totalPixels
        /\ BinCounts(an.histogram.b) = an.histogram.totalPixels

\* an analysed canvas of three pixels, one of them with a channel at 255
C1_Witness ==
    /\ AnalyzeDone
    /\ an.histogram.totalPixels = 3
    /\ an.histogram.r[HISTOGRAM_BINS].count > 0

\* n is total / count rounded to the nearest integer, halves up
IsRoundedMean(x, total, count) ==
    /\ x.d = 1
    /\ (2 * x.n - 1) * count <= 2 * total
    /\ 2 * total < (2 * x.n + 1) * count

\* C9: for a non-empty buffer each channel of averageColor is the sum of the
\* channel over all pixels divided by totalPixels, rounded.
C9_AverageIsRoundedMean ==
    (AnalyzeDone /\ Len(canvas.pixels) > 0) =>
        /\ IsRoundedMean(an.averageColor.r, ChannelTotal(1), an.histogram.totalPixels)
        /\ IsRoundedMean(an.averageColor.g, ChannelTotal(2), an.histogram.totalPixels)
        /\ IsRoundedMean(an.averageColor.b, ChannelTotal(3), an.histogram.totalPixels)

\* an average that is rounded up from a half: (255 + 0) / 2 gives 128
C9_Witness ==
    /\ AnalyzeDone
    /\ an.histogram.totalPixels = 2
    /\ an.totalR = 255
    /\ an.averageColor.r = Num(128)

\* C10, as claimed: for a buffer of zero pixels the analysis ends and every
\* part of the result is empty or zero: averageColor {0,0,0}, no palette and
\* no dominant colours, brightness average and range zero, variance {0,0,0}.
C10_EmptyIsZero ==
    (an.pc \notin {"getContext", "threw"} /\ Len(canvas.pixels) = 0) =>
        /\ an.pc = "done" =>
              /\ an.averageColor = NoColor
              /\ an.dominantColors = <<>>
              /\ an.representativePaletteColors = <<>>
              /\ an.distinctPaletteColors = <<>>
              /\ an.brightness.averageBrightness = Num(0)
              /\ an.brightness.brightnessRange = [min |-> 0, max |-> 0]
              /\ an.colorVariance = NoColor

---------------------------------------------------------------------------
(* Claims about medianCutQuantize and extractColorPalette, under SpecPalette *)

PaletteDone == mc.pc = "done"

\* C4, as claimed: for every list of points and every paletteSize,
\* medianCutQuantize returns at most paletteSize colours and never gives
\* splitBox a box of one point or fewer.
C4_AtMostPaletteSize ==
    /\ PaletteDone => Len(mc.result) <= mc.paletteSize
    /\ mc.pc \in {"split", "done"} =>
          \A j \in 1..Len(mc.splits) : Len(mc.splits[j].data) > 1

\* the canvas has pixels, all of the colour of the first
SingleColor ==
    /\ Len(canvas.pixels) > 0
    /\ \A p \in 1..(Len(canvas.pixels) \div 4) :
         \A ch \in 1..3 : canvas.pixels[4 * (p - 1) + ch] = canvas.pixels[ch]

\* C6: the palette of an image whose pixels all have one colour c, for any
\* palette size >= 1, is the one colour c.
C6_SingleColorPalette ==
    (PaletteDone /\ SingleColor /\ mc.paletteSize >= 1) =>
        mc.result = <<[r |-> canvas.pixels[1], g |-> canvas.pixels[2],
                       b |-> canvas.pixels[3]]>>

\* three pixels of (8,7,10), whose count is boosted by the saturation 3/10
C6_Witness ==
    /\ PaletteDone
    /\ SingleColor
    /\ mc.paletteSize = 2
    /\ Len(canvas.pixels) = 12
    /\ mc.data = <<[r |-> 8, g |-> 7, b |-> 10, count |-> Rat(39, 10)]>>
    /\ mc.result = <<[r |-> 8, g |-> 7, b |-> 10]>>

---------------------------------------------------------------------------
(* Claims about extractDistinctColorPalette, under SpecDistinct *)

DistinctDone == ds.pc = "done"
\* the least squared distance of colour c to the colours of selected
LeastDistance(c, selected) ==
    SetMin({colorDistanceSquared(c, selected[j]) : j \in 1..Len(selected)})
NonIncreasingSaturation(colors) ==
    \A i, j \in 1..Len(colors) :
        i < j => LessEq(getSaturation(colors[j]), getSaturation(colors[i]))

C8_DistinctCount ==
    (DistinctDone /\ ds.distinctCount >= 1) =>
        /\ Len(ds.result) = Min2(ds.distinctCount, Len(ds.candidatePalette))
        /\ \E f \in [1..Len(ds.result) -> 1..Len(ds.candidatePalette)] :
             /\ \A i, j \in 1..Len(ds.result) : f[i] = f[j] => i = j
             /\ \A i \in 1..Len(ds.result) : ds.result[i] = ds.candidatePalette[f[i]]
        /\ Len(ds.candidatePalette) <= ds.distinctCount =>
             ds.result = ds.candidatePalette

\* two colours selected out of three candidates
C8_Witness ==
    /\ DistinctDone
    /\ ds.distinctCount = 2
    /\ Len(ds.candidatePalette) = 3
    /\ Len(ds.result) = 2

---------------------------------------------------------------------------
(* Claims about the canvas context, under SpecContext *)

\* the function that was called has thrown, with none of its locals touched
ThrewUntouched ==
    \/ an = [AnalyzeLocals EXCEPT !.pc = "threw"] /\ mc = McIdle
    \/ an = [AnIdle EXCEPT !.pc = "threw"] /\ mc = McIdle
    \/ an = AnIdle /\ mc.pc = "threw" /\ mc.data = <<>> /\ mc.result = <<>>
Called ==
    \/ an.pc \notin {"idle", "getContext", "variance"}
    \/ an.pc = "idle" /\ mc.pc # "start"

\* C11: on a canvas without a 2d context analyzeImageColors,
\* extractColorPalette and calculateColorVariance throw before a pixel is
\* read, leave no part of a result, and take no further step: the context is
\* not asked for again.
C11_ContextUnavailable ==
    /\ [](~canvas.ctx /\ Called => ThrewUntouched)
    /\ [][(an.pc = "threw" \/ mc.pc = "threw") => FALSE]_vars

\* analyzeImageColors has thrown on a canvas that holds pixels
C11_Witness ==
    /\ ~canvas.ctx
    /\ Len(canvas.pixels) > 0
    /\ an = [AnalyzeLocals EXCEPT !.pc = "threw"]

---------------------------------------------------------------------------
(* Claims about color/sorting.ts, under SpecSorting *)

BothDominant == cmp.a.dominantColors.has /\ cmp.b.dominantColors.has
Returned(name) == cmp.called = name

\* C12: compareByLuminance(a, b) is negative exactly when the weighted
\* brightness of a's dominant colours is greater than that of b's; [white]
\* against [black] is negative, and so is [white, black] against
\* [black, white] (2/3 against 1/3 with the weights 1 and 1/2).
C12_BrighterFirst ==
    (Returned("compareByLuminance") /\ BothDominant) =>
        /\ cmp.sign < 0 <=>
             BrightnessOrder(getWeightedBrightness(cmp.a.dominantColors),
                             getWeightedBrightness(cmp.b.dominantColors)) = 1
        /\ (cmp.a.dominantColors.value = <<White>>
              /\ cmp.b.dominantColors.value = <<Black>>) => cmp.sign < 0
        /\ (cmp.a.dominantColors.value = <<White, Black>>
              /\ cmp.b.dominantColors.value = <<Black, White>>) => cmp.sign < 0

C12_Witness ==
    /\ Returned("compareByLuminance")
    /\ cmp.a.dominantColors = Present(<<White, Black>>)
    /\ cmp.b.dominantColors = Present(<<Black, White>>)
    /\ cmp.sign = -1

\* C13, as claimed: with dominantColors missing from a or b,
\* compareByLuminance takes the brightness of the average colour for that
\* image and orders the pair by it.
C13_AverageFallback ==
    (Returned("compareByLuminance") /\ ~BothDominant) =>
        cmp.sign = BrightnessOrder(LuminanceOf(cmp.b), LuminanceOf(cmp.a))

\* the dominant colours are there and all of them are grayscale (or none is there)
AllGrayscale(m) ==
    \A j \in 1..Len(m.dominantColors.value) : isGrayscale(m.dominantColors.value[j])

\* C14: compareByHue puts an image whose dominant colours are all grayscale
\* (or empty) after one with a dominant colour that is not; two such grayscale
\* images are ordered as compareByLuminance orders them; two colourful images
\* by ascending weighted hue, [red] before [green].
C14_HueOrder ==
    (Returned("compareByHue") /\ BothDominant) =>
        /\ (AllGrayscale(cmp.a) /\ ~AllGrayscale(cmp.b)) => cmp.sign > 0
        /\ (~AllGrayscale(cmp.a) /\ AllGrayscale(cmp.b)) => cmp.sign < 0
        /\ (AllGrayscale(cmp.a) /\ AllGrayscale(cmp.b)) =>
              cmp.sign = compareByLuminance(cmp.a, cmp.b)
        /\ (~AllGrayscale(cmp.a) /\ ~AllGrayscale(cmp.b)) =>
              /\ cmp.sign < 0 <=> Less(getWeightedHue(cmp.a.dominantColors.value),
                                       getWeightedHue(cmp.b.dominantColors.value))
              /\ cmp.sign > 0 <=> Less(getWeightedHue(cmp.b.dominantColors.value),
                                       getWeightedHue(cmp.a.dominantColors.value))
        /\ (cmp.a.dominantColors.value = <<Red>>
              /\ cmp.b.dominantColors.value = <<Green>>) => cmp.sign < 0

\* [red, green] has the weighted hue 1/9 and comes before [green, red], 2/9
C14_Witness ==
    /\ Returned("compareByHue")
    /\ cmp.a.dominantColors = Present(<<Red, Green>>)
    /\ cmp.b.dominantColors = Present(<<Green, Red>>)
    /\ cmp.sign = -1

\* the largest difference of two channels of a colour
ChannelSpread(color) ==
    Max2(Max2(color.r, color.g), color.b) - Min2(Min2(color.r, color.g), color.b)
\* no dominant colour among the first four (weight 1/(i+1) > 0.2) has a spread
\* of 8 or more
GrayscaleImage(m) ==
    \A j \in 1..Len(m.dominantColors.value) :
        ~(j <= 4 /\ ChannelSpread(m.dominantColors.value[j]) >= 8)

\* C15: compareBySaturation takes an image for grayscale iff no dominant
\* colour of weight 1/(i+1) > 0.2 has a channel spread of 8 or more; it puts a
\* grayscale image after one that is not and orders two grayscale images as
\* compareByLuminance does.
C15_SaturationGrayscale ==
    (Returned("compareBySaturation") /\ BothDominant) =>
        /\ getWeightedSaturation(cmp.a.dominantColors.value).isGrayscale
             <=> GrayscaleImage(cmp.a)
        /\ (GrayscaleImage(cmp.a) /\ ~GrayscaleImage(cmp.b)) => cmp.sign > 0
        /\ (~GrayscaleImage(cmp.a) /\ GrayscaleImage(cmp.b)) => cmp.sign < 0
        /\ (GrayscaleImage(cmp.a) /\ GrayscaleImage(cmp.b)) =>
              cmp.sign = compareByLuminance(cmp.a, cmp.b)

\* a colour of spread 8 in fifth place (weight 0.2) leaves the image grayscale,
\* and it comes after an image with that colour in first place
C15_Witness ==
    /\ Returned("compareBySaturation")
    /\ cmp.a.dominantColors = Present(Padded(4, Dim8))
    /\ cmp.b.dominantColors = Present(<<Dim8>>)
    /\ cmp.sign = 1

\* C16: getAverageColor returns the averageColor of the metadata when it is
\* there and black when it is missing, and leaves the metadata as it was.
C16_AverageOrBlack ==
    /\ [](Returned("getAverageColor") =>
            cmp.color = IF cmp.a.averageColor.has THEN cmp.a.averageColor.value
                        ELSE Black)
    /\ [][cmp'.a = cmp.a]_vars

C16_Witness ==
    /\ Returned("getAverageColor")
    /\ cmp.a.averageColor = Present(White)
    /\ cmp.color = White

---------------------------------------------------------------------------
(* Claims about kMeansClustering, under SpecDominant *)

KMeansReturned == km.pc \in {"output", "done"} /\ km.clustered
\* no cluster was left empty and no centroid moved by limit or more (squared)
QuietBelow(pass, limit) ==
    /\ pass.empty = {}
    /\ \A i \in 1..Len(pass.moved) : Less(pass.moved[i], limit)
\* no cluster was left empty and no centroid moved by more than limit
QuietUpTo(pass, limit) ==
    /\ pass.empty = {}
    /\ \A i \in 1..Len(pass.moved) : LessEq(pass.moved[i], limit)

\* C18, as claimed: kMeansClustering makes at most maxIterations (10) passes,
\* and it returns early exactly after the first pass in which no cluster is
\* empty and every centroid moved by a squared distance below 1.0.
C18_StopsBelowOne ==
    /\ Len(km.passes) <= MaxIterations
    /\ \A n \in 1..(Len(km.passes) - 1) : ~QuietBelow(km.passes[n], Num(1))
    /\ (KMeansReturned /\ Len(km.passes) < MaxIterations) =>
          QuietBelow(km.passes[Len(km.passes)], Num(1))

\* C18, amended: kMeansClustering makes at most maxIterations (10) passes, the
\* loop being entered only with a pass left to make; it returns early exactly
\* after the first pass in which no cluster is empty and no centroid moved by
\* a squared distance above 1.0 (a move of exactly 1.0 counts as converged).
C18_StopsUpToOne ==
    /\ Len(km.passes) <= MaxIterations
    /\ km.pc = "iterate" => Len(km.passes) < MaxIterations
    /\ \A n \in 1..(Len(km.passes) - 1) : ~QuietUpTo(km.passes[n], Num(1))
    /\ (KMeansReturned /\ Len(km.passes) < MaxIterations) =>
          QuietUpTo(km.passes[Len(km.passes)], Num(1))

\* the clustering returned after one pass in which a centroid moved by 1.0
C18_Witness ==
    /\ km.pc = "done"
    /\ Len(km.passes) = 1
    /\ \E i \in 1..Len(km.passes[1].moved) : km.passes[1].moved[i] = Num(1)

\* the reseeding of the clusters a pass left empty: each is an input point,
\* and the pass is not converged
Reseeded(pass) ==
    /\ ~pass.converged
    /\ \A i \in pass.empty :
         \E j \in 1..Len(km.data) : pass.centroids[i] = AsCentroid(km.data[j])

\* C19, as claimed: whenever a pass leaves a cluster empty, its centroid
\* becomes an input point, the pass is not converged, and another pass is made
\* before the centroids are returned.
C19_AnotherPass ==
    \A n \in 1..Len(km.passes) :
        km.passes[n].empty # {} =>
            /\ Reseeded(km.passes[n])
            /\ KMeansReturned => n < Len(km.passes)

\* C19, amended: whenever a pass leaves a cluster empty, its centroid becomes
\* an input point, the pass is not converged, and another pass is made before
\* the centroids are returned unless that pass was the last that
\* maxIterations allows.
C19_AnotherPassUnlessLast ==
    \A n \in 1..Len(km.passes) :
        km.passes[n].empty # {} =>
            /\ Reseeded(km.passes[n])
            /\ KMeansReturned => (n < Len(km.passes) \/ n = MaxIterations)

\* a cluster left empty was reseeded and took points in the pass that followed
C19_Witness ==
    /\ km.pc = "done"
    /\ Len(km.passes) >= 2
    /\ km.passes[1].empty # {}
    /\ km.passes[2].empty = {}

---------------------------------------------------------------------------
(* Further claims about analyzeImageColors, under Spec *)

IsByte(v) == v \in 0..255
ByteColor(c) == IsByte(c.r) /\ IsByte(c.g) /\ IsByte(c.b)
ByteColors(colors) == \A j \in 1..Len(colors) : ByteColor(colors[j])

\* C17: for a non-empty buffer every channel of averageColor and of every
\* colour of dominantColors, representativePaletteColors and
\* distinctPaletteColors is an integer from 0 to 255.
C17_ChannelsAreBytes ==
    (AnalyzeDone /\ Len(canvas.pixels) > 0) =>
        /\ \A x \in {an.averageColor.r, an.averageColor.g, an.averageColor.b} :
             x.d = 1 /\ IsByte(x.n)
        /\ ByteColors(an.dominantColors)
        /\ ByteColors(an.representativePaletteColors)
        /\ ByteColors(an.distinctPaletteColors)

\* an analysis with clustered dominant colours and two palette colours
C17_Witness ==
    /\ AnalyzeDone
    /\ Len(canvas.pixels) = 12
    /\ Len(an.dominantColors) = 2
    /\ Len(an.representativePaletteColors) = 2
    /\ Len(an.distinctPaletteColors) = 2

---------------------------------------------------------------------------
(* Further claims about medianCutQuantize, under SpecPalette *)

ChannelRange(box, ch) ==
    IF ch = "r" THEN box.rMax - box.rMin
    ELSE IF ch = "g" THEN box.gMax - box.gMin
    ELSE box.bMax - box.bMin
\* the weight of the first n points of a list
WeightUpTo(points, n) == SumRat([j \in 1..n |-> points[j].count])
\* where the claim cuts a list sorted on the channel: at the least JavaScript
\* index whose cumulative weight reaches half the total, at 1 if that is 0
CutOf(points) ==
    LET half == Div(WeightUpTo(points, Len(points)), Num(2))
        i == SetMin({j \in 0..(Len(points) - 1) :
                        LessEq(half, WeightUpTo(points, j + 1))})
    IN IF i = 0 THEN 1 ELSE i

\* C20: splitBox, given a box of two or more points of positive weight, sorts
\* them on a channel of the largest range and cuts at the least index whose
\* cumulative weight reaches half the total (at 1 when that is 0); both boxes
\* it returns hold a point.
C20_SplitAtWeightedMedian ==
    \A n \in 1..Len(mc.halves) :
        LET box == mc.splits[n]
            left == mc.halves[n][1].data
            right == mc.halves[n][2].data
            whole == left \o right
        IN /\ \E f \in Permutations(Len(box.data)) :
                whole = [j \in 1..Len(box.data) |-> box.data[f[j]]]
           /\ \E ch \in {"r", "g", "b"} :
                /\ \A other \in {"r", "g", "b"} :
                     ChannelRange(box, ch) >= ChannelRange(box, other)
                /\ \A j \in 1..(Len(whole) - 1) : whole[j][ch] <= whole[j + 1][ch]
           /\ Len(left) = CutOf(whole)
           /\ Len(left) >= 1 /\ Len(right) >= 1

\* a box of three points cut after the second: the first weighs less than half
C20_Witness ==
    /\ Len(mc.halves) >= 1
    /\ Len(mc.splits[1].data) = 3
    /\ Len(mc.halves[1][1].data) = 2
    /\ mc.halves[1][1].data[1].g < mc.halves[1][1].data[2].g

DistinctColours(data) ==
    \A i, j \in 1..Len(data) :
        i # j => <<data[i].r, data[i].g, data[i].b>> # <<data[j].r, data[j].g, data[j].b>>
\* the step is a split by medianCutQuantize
SplitStep == Len(mc'.splits) = Len(mc.splits) + 1

\* C21: for n >= 1 points of pairwise distinct colours and paletteSize P >= 1
\* medianCutQuantize returns exactly min(P, n) colours, and every box it splits
\* is one of the largest channel range among the boxes at that time.
C21_MinOfSizeAndPoints ==
    /\ []((PaletteDone /\ Len(mc.data) >= 1 /\ DistinctColours(mc.data)
              /\ mc.paletteSize >= 1) =>
            Len(mc.result) = Min2(mc.paletteSize, Len(mc.data)))
    /\ [][(SplitStep /\ DistinctColours(mc.data)) =>
            \A j \in 1..Len(mc.boxes) :
                BoxRange(mc'.splits[Len(mc'.splits)]) >= BoxRange(mc.boxes[j])]_vars

\* three colours asked for and returned, after two splits of which the second
\* took the second box
C21_Witness ==
    /\ PaletteDone
    /\ DistinctColours(mc.data)
    /\ Len(mc.data) = 3
    /\ mc.paletteSize = 3
    /\ Len(mc.result) = 3
    /\ Len(mc.splits) = 2
    /\ mc.splits[2] = mc.halves[1][2]

---------------------------------------------------------------------------
(* Claims about calculateColorVariance, under SpecVariance *)

VarianceDone == vr.pc = "done"
\* the pixels <<x, y>> of the image within a block, edge blocks truncated
BlockRegion(blockX, blockY) ==
    {xy \in (0..(canvas.width - 1)) \X (0..(canvas.height - 1)) :
        /\ xy[1] \div 16 = blockX
        /\ xy[2] \div 16 = blockY}
ValueAt(xy, ch) == canvas.pixels[4 * (xy[2] * canvas.width + xy[1]) + ch]
\* the pixels of a block none of whose r, g, b is 0
NonZeroPixels(blockX, blockY) ==
    {xy \in BlockRegion(blockX, blockY) : \A ch \in 1..3 : ValueAt(xy, ch) # 0}
\* the sum over a set of pixels of the channel's value to the power 1 or 2
PowerSum(S, ch, power) ==
    SumSeq([q \in 1..(canvas.width * canvas.height) |->
        LET xy == <<(q - 1) % canvas.width, (q - 1) \div canvas.width>>
            v == ValueAt(xy, ch)
        IN IF xy \notin S THEN 0 ELSE IF power = 2 THEN v * v ELSE v])
\* the variance of a channel over a non-empty set of pixels:
\* the mean of the squares less the square of the mean
VarianceOver(S, ch) ==
    Rat(Cardinality(S) * PowerSum(S, ch, 2) - PowerSum(S, ch, 1) * PowerSum(S, ch, 1),
        Cardinality(S) * Cardinality(S))
\* v is the element at JavaScript index i of the ascending sort of values
IsElementAt(v, values, i) ==
    /\ \E j \in 1..Len(values) : values[j] = v
    /\ Cardinality({j \in 1..Len(values) : Less(values[j], v)}) <= i
    /\ i < Cardinality({j \in 1..Len(values) : LessEq(values[j], v)})

C23_ZeroPixelsLeftOut ==
    /\ \A k \in 1..Len(vr.blocks) :
         \A kept \in {NonZeroPixels(vr.blocks[k].blockX, vr.blocks[k].blockY)} :
            /\ vr.blocks[k].pixelCount = Cardinality(kept)
            /\ vr.blocks[k].entry =
                 IF kept = {} THEN <<>>
                 ELSE <<[r |-> VarianceOver(kept, 1), g |-> VarianceOver(kept, 2),
                         b |-> VarianceOver(kept, 3)]>>
    /\ Len(vr.blockVariances) =
         Cardinality({k \in 1..Len(vr.blocks) : vr.blocks[k].pixelCount > 0})

\* a block of zero pixels only was passed over and a block of sixteen pixels,
\* four of them with a zero channel, gave an entry
C23_Witness ==
    /\ Len(vr.blocks) = 2
    /\ vr.blocks[1].pixelCount = 0
    /\ vr.blocks[1].entry = <<>>
    /\ vr.blocks[2].pixelCount = 12
    /\ Len(vr.blockVariances) = 1
    /\ vr.blockVariances[1].g # Num(0)

---------------------------------------------------------------------------
(* Claims about the histogram, under SpecHistogram *)

\* the pixels updateHistogram has been called for, and the channel ch (1, 2, 3)
\* of the pixel p
PixelsCounted == 1..(an.i \div 4)
ByteAt(p, ch) == canvas.pixels[4 * (p - 1) + ch]
\* the bins of channel ch count the pixels by floor(v * 32 / 256)
CountedByEighths(bins, ch) ==
    /\ Len(bins) = 32
    /\ \A j \in 1..32 :
         /\ bins[j].value = 8 * (j - 1)
         /\ bins[j].count =
              Cardinality({p \in PixelsCounted : (ByteAt(p, ch) * 32) \div 256 = j - 1})
    /\ \A p \in PixelsCounted :
         LET index == (ByteAt(p, ch) * 32) \div 256
         IN /\ index \in 0..31
            /\ bins[index + 1].value <= ByteAt(p, ch)
            /\ ByteAt(p, ch) < bins[index + 1].value + 8
            /\ bins[index + 1].count >= 1
    /\ SumSeq([j \in 1..32 |-> bins[j].count]) = Cardinality(PixelsCounted)

\* C24: the histogram has 32 bins per channel of values 8i, i = 0..31, the
\* same for every image; every channel value v in 0..255 is counted in bin
\* floor(v * 32 / 256), a valid index with bin.value <= v < bin.value + 8, so
\* that no pixel of an 8-bit buffer is skipped.
C24_BinsOfEight ==
    an.pc = "histogram" =>
        /\ CountedByEighths(an.histogram.r, 1)
        /\ CountedByEighths(an.histogram.g, 2)
        /\ CountedByEighths(an.histogram.b, 3)

\* the pixel (255, 0, 127) is counted in the bins 31, 0 and 15
C24_Witness ==
    /\ an.pc = "histogram"
    /\ canvas.pixels = <<255, 0, 127, 255>>
    /\ an.i = 4
    /\ an.histogram.r[32].count = 1
    /\ an.histogram.g[1].count = 1
    /\ an.histogram.b[16].count = 1

---------------------------------------------------------------------------
(* Further claims about kMeansClustering, under SpecDominant *)

\* the total count of the points given to kMeansClustering
TotalCount == SumSeq([j \in 1..Len(km.data) |-> km.data[j].count])
\* a pass of kMeansClustering has been performed
PassPerformed ==
    km.pc \in {"iterate", "output", "done"} /\ km.clustered /\ Len(km.passes) >= 1

\* C25: after every assign-and-update pass of kMeansClustering the cluster
\* weights sum to the total count of the input points, each point's count
\* being credited to exactly one cluster; the weights returned are those of
\* the last pass performed.
C25_WeightsSumToTotal ==
    /\ PassPerformed =>
         /\ SumSeq(km.clusterWeights) = TotalCount
         /\ \A j \in 1..Len(km.data) : km.assigned[j] \in 1..Len(km.clusterWeights)
         /\ \A i \in 1..Len(km.clusterWeights) :
              km.clusterWeights[i] =
                SumSeq([j \in 1..Len(km.data) |->
                          IF km.assigned[j] = i THEN km.data[j].count ELSE 0])
    /\ (DominantDone /\ km.clustered) =>
         /\ PassPerformed
         /\ \E f \in Permutations(Len(km.clusterWeights)) :
              \A i \in 1..Len(km.clusterWeights) :
                  /\ km.clusters[i].weight = km.clusterWeights[f[i]]
                  /\ km.clusters[i].centroid = km.passes[Len(km.passes)].centroids[f[i]]

\* a second pass was performed on points some of which count more than once,
\* and its weights, of which none is 0, were returned
C25_Witness ==
    /\ DominantDone
    /\ km.clustered
    /\ Len(km.passes) = 2
    /\ \E j \in 1..Len(km.data) : km.data[j].count > 1
    /\ \A i \in 1..Len(km.clusters) : km.clusters[i].weight > 0
    /\ Len(km.clusters) = 2

---------------------------------------------------------------------------
(* Further claims about medianCutQuantize, under SpecPalette *)

\* the points of the boxes, box after box
RECURSIVE PointsOf(_)
PointsOf(boxes) ==
    IF boxes = <<>> THEN <<>> ELSE Head(boxes).data \o PointsOf(Tail(boxes))
\* medianCutQuantize is at its loop or has returned from it
Quantizing == mc.pc \in {"split", "done"} /\ Len(mc.boxes) >= 1

\* C26: at every step of medianCutQuantize the point lists of the boxes are a
\* partition of the input (each input point in exactly one box, no box empty)
\* and the caller's input array is left as it was: same elements, same order.
C26_BoxesPartitionInput ==
    /\ [](Quantizing =>
            /\ \A j \in 1..Len(mc.boxes) : Len(mc.boxes[j].data) >= 1
            /\ Len(PointsOf(mc.boxes)) = Len(mc.data)
            /\ \E f \in Permutations(Len(mc.data)) :
                 PointsOf(mc.boxes) = [j \in 1..Len(mc.data) |-> mc.data[f[j]]])
    /\ [][mc.pc \in {"quantize", "split"} => mc'.data = mc.data]_vars

\* three boxes of one point each, in another order than the input's
C26_Witness ==
    /\ Quantizing
    /\ Len(mc.boxes) = 3
    /\ Len(mc.data) = 3
    /\ DistinctColours(mc.data)
    /\ PointsOf(mc.boxes) # mc.data
    /\ mc.halves[1][1].data[1] # mc.data[1]

---------------------------------------------------------------------------
(* Claims about the comparators, under SpecComparators *)

NonEmptyLists(m) ==
    /\ m.dominantColors.has /\ Len(m.dominantColors.value) > 0
    /\ m.representativePaletteColors.has /\ Len(m.representativePaletteColors.value) > 0
    /\ m.distinctPaletteColors.has /\ Len(m.distinctPaletteColors.value) > 0

\* C27: every comparator of sorting.ts is antisymmetric: for a and b with
\* non-empty dominantColors and palettes, cmp(a, b) and cmp(b, a) have opposite
\* signs or are both zero, and cmp(a, a) is zero.
C27_Antisymmetric ==
    /\ (cmp.swapped /\ NonEmptyLists(cmp.a) /\ NonEmptyLists(cmp.b)) =>
          cmp.back = -cmp.sign
    /\ (cmp.called \notin {"idle", "none"} /\ NonEmptyLists(cmp.a) /\ cmp.a = cmp.b) =>
          cmp.sign = 0

\* compareByHue on two images without a hue: [white, black], the brighter,
\* comes first, whichever way round they are given
C27_Witness ==
    /\ cmp.swapped
    /\ cmp.called = "compareByHue"
    /\ cmp.a.dominantColors.value = <<Dim7>>
    /\ cmp.b.dominantColors.value = <<White, Black>>
    /\ cmp.sign = 1
    /\ cmp.back = -1

---------------------------------------------------------------------------
(* Claims about calculateDimensions and resizeImageBlob, under SpecResize *)

\* calculateDimensions has returned newWidth and newHeight
DimensionsCalculated == rz.pc # "idle" /\ rz.calculated
LongerSide(w, h) == IF w > h THEN w ELSE h

\* C28, as claimed: for positive integer width, height and maxDimension,
\* calculateDimensions returns its input when both sides are <= maxDimension,
\* and otherwise dimensions whose longer side is maxDimension and whose sides
\* are both at least 1 and at most maxDimension.
C28_WithinMaxDimension ==
    DimensionsCalculated =>
        IF rz.width <= rz.maxDimension /\ rz.height <= rz.maxDimension
        THEN rz.newWidth = rz.width /\ rz.newHeight = rz.height
        ELSE /\ LongerSide(rz.newWidth, rz.newHeight) = rz.maxDimension
             /\ rz.newWidth >= 1 /\ rz.newWidth <= rz.maxDimension
             /\ rz.newHeight >= 1 /\ rz.newHeight <= rz.maxDimension

\* what holds of calculateDimensions: the claim but for the lower limit of
\* the shorter side, which is round(maxDimension * shorter / longer) and is
\* 0 when the longer side is more than twice maxDimension times the shorter
C28_ShorterSideRounded ==
    DimensionsCalculated =>
        IF rz.width <= rz.maxDimension /\ rz.height <= rz.maxDimension
        THEN rz.newWidth = rz.width /\ rz.newHeight = rz.height
        ELSE /\ LongerSide(rz.newWidth, rz.newHeight) = rz.maxDimension
             /\ rz.newWidth >= 0 /\ rz.newWidth <= rz.maxDimension
             /\ rz.newHeight >= 0 /\ rz.newHeight <= rz.maxDimension
             /\ rz.width > rz.height => rz.newWidth = rz.maxDimension
             /\ rz.width <= rz.height => rz.newHeight = rz.maxDimension
             /\ (rz.newWidth = 0 \/ rz.newHeight = 0) <=>
                   LongerSide(rz.width, rz.height) >
                     2 * rz.maxDimension * (rz.width + rz.height
                                              - LongerSide(rz.width, rz.height))

\* C29, as claimed: every object URL resizeImageBlob created has been revoked
\* by the time the promise it returned settles, on every path.
C29_UrlsRevoked ==
    rz.pc = "settled" => rz.created \subseteq rz.revoked

\* what holds of resizeImageBlob: the URL is revoked exactly when the promise
\* resolves with a resized blob
C29_RevokedOnlyAfterResize ==
    rz.pc = "settled" =>
        /\ Cardinality(rz.created) = 1
        /\ (rz.created \subseteq rz.revoked) <=> rz.returned = "resizedBlob"

---------------------------------------------------------------------------
(* Claims about extractMetadata, under SpecMetadata *)

\* C30: extractMetadata always resolves and never rejects: when PNG chunk
\* parsing throws, the file reader reports an error or EXIF parsing fails,
\* the result holds the basic metadata of the file (mimeType, fileSize,
\* original dimensions) and no partial format-specific block: no exif block,
\* and a png block, if any, that has all six fields and nothing in them.
C30_BasicMetadataOnFailure ==
    /\ md.pc # "idle" => md.settled # "rejected"
    /\ md.pc = "settled" =>
          /\ md.settled = "resolved"
          /\ md.basic.mimeType = md.file.type
          /\ md.basic.fileSize = md.file.size
          /\ md.basic.originalWidth = md.img.naturalWidth
          /\ md.basic.originalHeight = md.img.naturalHeight
          /\ md.hasPng => DOMAIN md.png = PngFields
                           /\ \A field \in PngFields : md.png[field] # Undefined
          /\ md.failure # "none" =>
                /\ ~md.hasExif
                /\ md.hasPng => \A field \in PngFields : md.png[field] = ""
          /\ md.failure \in {"reader", "exif"} => ~md.hasPng

\* each of the three failures has happened and the promise has resolved
C30_Witness ==
    /\ md.pc = "settled" /\ md.settled = "resolved"
    /\ \/ md.failure = "chunks" /\ md.hasPng /\ Len(md.file.data.chunks) = MaxChunks
                                /\ md.file.data.chunks[1].data = <<"Title", "t">>
       \/ md.failure = "reader" /\ md.file.lastModified = 1
       \/ md.failure = "exif" /\ md.img.naturalWidth = 2

\* a PNG file read to its end: the fields of the png block are those of its
\* text chunks, the empty string where there is none
PngBlockOfTextChunks ==
    md.pc = "settled" /\ md.hasPng /\ md.failure = "none" =>
        /\ md.png.title =
             (IF \E j \in 1..Len(md.file.data.chunks) :
                    md.file.data.chunks[j].data = <<"Title", "t">> THEN "t"
              ELSE IF \E j \in 1..Len(md.file.data.chunks) :
                    md.file.data.chunks[j].data = <<"title", "u">> THEN "u"
              ELSE "")
        /\ md.png.author =
             (IF \E j \in 1..Len(md.file.data.chunks) :
                    md.file.data.chunks[j].type = "iTXt" THEN "a" ELSE "")
        /\ md.png.software = ""

===========================================================================
